---- MODULE Spec2Model ----
(***************************************************************************)
(* Context-window management of go-coding-agent.                           *)
(*                                                                         *)
(* The model follows internal/context (ContextWindow) and the part of      *)
(* internal/agent that feeds it (Agent.AddMessage, isImportantMessage).    *)
(* Message contents and the summary are real strings; the token estimate,  *)
(* the keyword tests, the truncation and the summary text are computed on  *)
(* them as the code computes them.  Messages and ImportantMessages are Go  *)
(* slices: a slice is a pointer to a backing array plus a length, the      *)
(* capacity is the length of the backing array, and two slices may point   *)
(* to the same array.                                                      *)
(*                                                                         *)
(* ConversationMessage.Timestamp is written once and never read by any     *)
(* code of the repository; it is left out of the message record.           *)
(* MessageID is a time-derived string in the code; the model uses the      *)
(* serial number of the AddMessage call, which also gives the insertion    *)
(* order of the messages.                                                  *)
(***************************************************************************)
EXTENDS Integers, Sequences, FiniteSets, TLC

(***************************************************************************)
(* Bounds of the model.                                                    *)
(***************************************************************************)
\* argument of NewContextWindow.  The agent passes the limit of its model
\* (32000 and more); the model scales it down so that the 2000 reserved and
\* the 500 summary tokens leave 12 tokens and short sessions reach the budget
ModelContextLimit == 2512
\* AddMessage calls in a session without ClearConversation
MaxAdds == 13
\* messages of such a session that are not the plain filler message
MaxSpecial == 2
\* AddMessage calls in a session with ClearConversation
MaxAddsClear == 11
\* ClearConversation calls in such a session
MaxClears == 2
\* AddMessage calls in a session on a window with chosen budgets
MaxAddsUsage == 11
\* user/assistant pairs added in the trimming scenario
MaxPairs == 12
\* Chat calls that the client answers in one turn; later calls fail
MaxChats == 2
\* a turn of ProcessMessage starts while fewer messages have been added
MaxTurnAdds == 4
\* distinct paths given to AddFocusedFile in a session
MaxFocusPaths == 15
\* distinct paths given to AddRecentFile in a session
MaxRecentPaths == 21
\* operations of a session other than the addition of a new path
MaxOther == 2
\* the same in a session about the recent files
MaxOtherRecent == 1
\* paths focused in a session about the recent files
MaxFocusBetween == 1
\* operations of a session about the tasks
MaxTaskOps == 5
\* operations of a session that saves and loads its state
MaxPersistOps == 4
\* changes of the file system and restarts of the agent in a session
MaxDetectOps == 2
\* turns, commands and restarts in a run of the agent
MaxRunOps == 3
\* goroutines that call the command registry
NumThreads == 2
\* calls of the command registry made by all goroutines together
MaxCalls == 3
\* lines read by the loop of runInteractiveMode
MaxLines == 3
\* AddMessage calls in a session with MarkMessageImportant
MaxAddsMark == 13
\* length of the short answer scripts of a long turn
MaxShortScript == 50
\* length of the long answer script of a long turn
MaxLongScript == 402
\* AddMessage calls in a session that fills the summary
MaxAddsSummary == 40
\* MarkMessageImportant calls in a session
MaxMarks == 2
\* messages important from the start in a session with MarkMessageImportant
MaxSpecialMark == 2
\* ClearConversation calls in a session with MarkMessageImportant
MaxClearsMark == 1
\* a turn of ProcessMessage starts, in a session with ClearConversation,
\* while fewer messages have been added
MaxAddsTurns == 12
\* goroutines that call Start and Stop of one LoadingIndicator
NumCallers == 2
\* calls of Start and Stop made by all goroutines together
MaxIndicatorCalls == 4

(***************************************************************************)
(* Strings: strings.ToLower, strings.Contains, %d of fmt.Sprintf.          *)
(***************************************************************************)
UpperCase == "ABCDEFGHIJKLMNOPQRSTUVWXYZ"
LowerCase == "abcdefghijklmnopqrstuvwxyz"
DecDigits == "0123456789"

CharAt(s, i) == SubSeq(s, i, i)

toLowerChar(c) ==
    IF \E k \in 1..26 : CharAt(UpperCase, k) = c
    THEN LET k == CHOOSE k \in 1..26 : CharAt(UpperCase, k) = c
         IN CharAt(LowerCase, k)
    ELSE c

\* every character mapped by toLowerChar; the string is halved so that the
\* depth of the recursion stays small for contents of some 200 characters
RECURSIVE ToLower(_)
ToLower(s) ==
    IF Len(s) = 0 THEN ""
    ELSE IF Len(s) = 1 THEN toLowerChar(s)
    ELSE LET half == Len(s) \div 2
         IN ToLower(SubSeq(s, 1, half))
                \o ToLower(SubSeq(s, half + 1, Len(s)))

Contains(s, substr) ==
    \E i \in 1..(Len(s) - Len(substr) + 1) :
        SubSeq(s, i, i + Len(substr) - 1) = substr

\* s begins with prefix
HasPrefix(s, prefix) ==
    /\ Len(prefix) <= Len(s)
    /\ SubSeq(s, 1, Len(prefix)) = prefix

RECURSIVE FormatInt(_)
FormatInt(n) ==
    IF n < 10 THEN CharAt(DecDigits, n + 1)
    ELSE FormatInt(n \div 10) \o CharAt(DecDigits, (n % 10) + 1)

(***************************************************************************)
(* The inputs of Agent.AddMessage: role and content.                       *)
(***************************************************************************)
PlainInput == << "user", "hello" >>

LongContent ==
    "0123456789012345678901234567890123456789012345678901234567890123456789012345678901234567890123456789abcd"

SpecialInputs ==
    { << "system", "You are Agent_Go" >>,
      << "assistant", "Create x" >>,
      << "user", "open the file" >>,
      << "user", "next task" >>,
      << "assistant", LongContent >> }

Inputs == { PlainInput } \cup SpecialInputs

\* the inputs of sessions with ClearConversation
ClearInputs == { PlainInput, << "assistant", "Create x" >> }

(***************************************************************************)
(* The inputs of the trimming scenario: one system prompt, then user and   *)
(* assistant messages of about 50 tokens (196, 200 and 204 characters)     *)
(* that hold no importance keyword.                                        *)
(***************************************************************************)
ScenarioSystemInputs ==
    { << "system", "You are Agent_Go" >>,
      << "system", "You are Agent_Go, a helper for work in the terminal." >> }

UserContent49 ==
    "what does the main loop do with each line of input and how a"
    \o "re the tokens split up before parsing what does the main loo"
    \o "p do with each line of input and how are the tokens split up"
    \o " before parsing "

AssistantContent49 ==
    "the main loop takes one line at a time and hands it to the s"
    \o "canner which splits it up into tokens the main loop takes on"
    \o "e line at a time and hands it to the scanner which splits it"
    \o " up into tokens "

UserContent50 ==
    "what does the main loop do with each line of input and how a"
    \o "re the tokens split up before parsing what does the main loo"
    \o "p do with each line of input and how are the tokens split up"
    \o " before parsing what"

AssistantContent50 ==
    "the main loop takes one line at a time and hands it to the s"
    \o "canner which splits it up into tokens the main loop takes on"
    \o "e line at a time and hands it to the scanner which splits it"
    \o " up into tokens the "

UserContent51 ==
    "what does the main loop do with each line of input and how a"
    \o "re the tokens split up before parsing what does the main loo"
    \o "p do with each line of input and how are the tokens split up"
    \o " before parsing what doe"

AssistantContent51 ==
    "the main loop takes one line at a time and hands it to the s"
    \o "canner which splits it up into tokens the main loop takes on"
    \o "e line at a time and hands it to the scanner which splits it"
    \o " up into tokens the main"

ScenarioMessageInputs ==
    { << "user", UserContent49 >>, << "assistant", AssistantContent49 >>,
      << "user", UserContent50 >>, << "assistant", AssistantContent50 >>,
      << "user", UserContent51 >>, << "assistant", AssistantContent51 >> }

ScenarioInputs == ScenarioSystemInputs \cup ScenarioMessageInputs

(***************************************************************************)
(* The contents that a turn of ProcessMessage adds: the system prompt      *)
(* (shortened to its first words), the user message, the replies of the    *)
(* model and the prompts of continueConversationUntilComplete.             *)
(***************************************************************************)
SystemPrompt == "You are Agent_Go"

UserMessages == { "hello" }

\* The one tool call of a reply, named by what becomes of it: the tool
\* succeeds ("ok"), the tool returns an error ("fail"), the name is not in
\* the tool registry ("unknown"), the arguments are not JSON ("badargs").
toolCallName(tool) ==
    IF tool = "unknown" THEN "run_shell" ELSE "read_file"

\* tools.Registry.Execute
toolRegistryExecute(tool) ==
    IF tool = "unknown"
    THEN [Name |-> toolCallName(tool), Result |-> "",
          Error |-> "tool '" \o toolCallName(tool) \o "' not found",
          Success |-> FALSE]
    ELSE IF tool = "fail"
    THEN [Name |-> toolCallName(tool), Result |-> "",
          Error |-> "no such file", Success |-> FALSE]
    ELSE [Name |-> toolCallName(tool), Result |-> "package main",
          Error |-> "", Success |-> TRUE]

\* the loop of executeOpenRouterToolCalls over the one tool call: arguments
\* that do not parse end the iteration with nothing appended
collectToolResults(tool) ==
    IF tool = "badargs" THEN << >>
    ELSE LET toolResult == toolRegistryExecute(tool)
         IN IF toolResult.Success
            THEN << toolResult.Name \o " result: " \o toolResult.Result >>
            ELSE << toolResult.Name \o " error: " \o toolResult.Error >>

RECURSIVE Join(_, _)
Join(elems, sep) ==
    IF Len(elems) = 0 THEN ""
    ELSE IF Len(elems) = 1 THEN elems[1]
    ELSE elems[1] \o sep \o Join(Tail(elems), sep)

\* strings.Join(toolResults, "\n")
toolResultsMessage(tool) == Join(collectToolResults(tool), "\n")

followUpPrompt(toolResults) ==
    "Tool execution results:\n" \o toolResults
    \o "\n\nPlease analyze these results and continue with the task. "
    \o "If you need to use more tools or take additional actions to "
    \o "complete the user's request, please do so. If the task is "
    \o "complete, provide a summary of what was accomplished."

anythingElsePrompt ==
    "Is there anything else you need to do to complete this task? "
    \o "If so, please continue. If the task is complete, please confirm."

ToolOutcomes == { "ok", "fail", "unknown", "badargs" }

ReplyContents ==
    { "", "Done.", "Let me check the next step",
      "Let me read the file 'a.go'" }

ProcessInputs ==
    { << "system", SystemPrompt >> }
    \cup { << "user", m >> : m \in UserMessages }
    \cup { << "assistant", c >> : c \in ReplyContents }
    \cup { << "user", followUpPrompt(toolResultsMessage(t)) >> :
               t \in ToolOutcomes }
    \cup { << "user", anythingElsePrompt >> }

AllInputs == Inputs \cup ScenarioInputs \cup ProcessInputs

Contents == { input[2] : input \in AllInputs }

(***************************************************************************)
(* Pure functions of the context package and of the agent.                 *)
(***************************************************************************)
\* variant of EstimateTokens that counts every character as a token
EstimateTokensPerChar(text) == Len(text)

\* EstimateTokens: 4 characters are about 1 token, integer division
EstimateTokens(text) == Len(text) \div 4

truncateContent(content, maxLen) ==
    IF Len(content) <= maxLen THEN content
    ELSE SubSeq(content, 1, maxLen) \o "..."

importantKeywords ==
    << "error", "failed", "success", "completed",
       "implement", "create", "build", "deploy",
       "task:", "goal:", "objective:",
       "important:", "note:", "warning:" >>

isImportantMessage(role, content) ==
    IF role = "system" THEN TRUE
    ELSE LET lowered == ToLower(content)
         IN \E k \in 1..Len(importantKeywords) :
                Contains(lowered, importantKeywords[k])

\* the zero value of ConversationMessage, as in the unused part of an array
ZeroMessage ==
    [Role |-> "", Content |-> "", Tokens |-> 0, Important |-> FALSE,
     MessageID |-> 0]

\* isImportantMessage of every input of the model, computed once
importanceTable ==
    [input \in AllInputs |-> isImportantMessage(input[1], input[2])]

NewMessage(role, content, important, id) ==
    [Role |-> role, Content |-> content, Tokens |-> EstimateTokens(content),
     Important |-> important, MessageID |-> id]

(***************************************************************************)
(* createSummary: the text written for the messages that are removed.      *)
(***************************************************************************)
bucketOfContent(text) ==
    LET content == ToLower(text)
    IN IF \/ Contains(content, "task")
          \/ Contains(content, "implement")
          \/ Contains(content, "create")
       THEN "task"
       ELSE IF \/ Contains(content, "file")
               \/ Contains(content, "code")
               \/ Contains(content, "function")
            THEN "code"
            ELSE "other"

\* the classification of every content of the model, computed once
bucketTable == [text \in Contents |-> bucketOfContent(text)]

bucketOf(msg) == bucketTable[msg.Content]

\* fmt.Sprintf("- %s: %s", msg.Role, truncateContent(msg.Content, 100))
summaryLine(msg) ==
    "- " \o msg.Role \o ": " \o truncateContent(msg.Content, 100)

\* the lines of one bucket, each followed by a newline, in message order
RECURSIVE bucketLines(_, _)
bucketLines(messages, bucket) ==
    IF Len(messages) = 0 THEN ""
    ELSE (IF bucketOf(Head(messages)) = bucket
          THEN summaryLine(Head(messages)) \o "\n"
          ELSE "")
         \o bucketLines(Tail(messages), bucket)

\* variant of createSummary that starts from an empty builder and so loses
\* the earlier summary text
createSummaryDiscarding(summary, messages) ==
    LET taskMessages == bucketLines(messages, "task")
        codeMessages == bucketLines(messages, "code")
        otherMessages == bucketLines(messages, "other")
    IN "=== Conversation Summary (" \o FormatInt(Len(messages))
           \o " messages) ===\n"
       \o (IF taskMessages # ""
           THEN "Tasks/Implementation:\n" \o taskMessages \o "\n" ELSE "")
       \o (IF codeMessages # ""
           THEN "Code/File Operations:\n" \o codeMessages \o "\n" ELSE "")
       \o (IF otherMessages # ""
           THEN "Other Discussion:\n" \o otherMessages ELSE "")

createSummary(summary, messages) ==
    IF Len(messages) = 0 THEN summary
    ELSE LET taskMessages == bucketLines(messages, "task")
             codeMessages == bucketLines(messages, "code")
             otherMessages == bucketLines(messages, "other")
         IN (IF summary # "" THEN summary \o "\n\n" ELSE "")
            \o "=== Conversation Summary (" \o FormatInt(Len(messages))
                \o " messages) ===\n"
            \o (IF taskMessages # ""
                THEN "Tasks/Implementation:\n" \o taskMessages \o "\n"
                ELSE "")
            \o (IF codeMessages # ""
                THEN "Code/File Operations:\n" \o codeMessages \o "\n"
                ELSE "")
            \o (IF otherMessages # ""
                THEN "Other Discussion:\n" \o otherMessages ELSE "")

(***************************************************************************)
(* Token accounting and the partition of trimIfNeeded, on message values.  *)
(***************************************************************************)
RECURSIVE sumTokens(_)
sumTokens(messages) ==
    IF Len(messages) = 0 THEN 0
    ELSE Head(messages).Tokens + sumTokens(Tail(messages))

calculateCurrentTokens(messages, summary) ==
    sumTokens(messages)
        + (IF summary # "" THEN EstimateTokens(summary) ELSE 0)

\* recentCount := 10, "Keep last 10 messages"
recentCount == 10

\* variant of isRecent that takes recentCount for an index, not for a count
\* from the end
isRecentAbsolute(i, totalMessages) == i >= recentCount

\* variant of isRecent that keeps 9 messages
isRecentOffByOne(i, totalMessages) == i > totalMessages - recentCount

\* i is the 0-based index of the range loop
isRecent(i, totalMessages) == i >= totalMessages - recentCount

\* variant of keeps that forgets the Important flag
keepsOnlyRecent(messages, i) == isRecent(i, Len(messages))

keeps(messages, i) ==
    messages[i + 1].Important \/ isRecent(i, Len(messages))

\* the elements of the range loop from index i on that go to messagesToKeep
\* (keep = TRUE) or to messagesToSummarize (keep = FALSE)
RECURSIVE partitionFrom(_, _, _)
partitionFrom(messages, i, keep) ==
    IF i >= Len(messages) THEN << >>
    ELSE (IF keeps(messages, i) = keep THEN << messages[i + 1] >> ELSE << >>)
         \o partitionFrom(messages, i + 1, keep)

messagesToKeep(messages) == partitionFrom(messages, 0, TRUE)

messagesToSummarize(messages) == partitionFrom(messages, 0, FALSE)

(***************************************************************************)
(* Go slices.  heap maps an array to its elements (its length is the       *)
(* capacity); a slice is [arr, len].  The program holds two slices, so two *)
(* arrays are enough: an array no slice points to is garbage and its name  *)
(* is used again.                                                          *)
(***************************************************************************)
Arrays == 1..2

zeros(n) == [k \in 1..n |-> ZeroMessage]

\* growth of append when the capacity is exhausted (amortised doubling of
\* the Go runtime; capacities of the model stay below its threshold of 256)
nextslicecap(newLen, oldCap) ==
    IF newLen > 2 * oldCap THEN newLen
    ELSE IF oldCap < 256 THEN 2 * oldCap
         ELSE oldCap + ((oldCap + 3 * 256) \div 4)

\* capacity of a slice built from []ConversationMessage{} by n appends
RECURSIVE capAfterAppends(_)
capAfterAppends(n) ==
    IF n = 0 THEN 0
    ELSE LET c == capAfterAppends(n - 1)
         IN IF n <= c THEN c ELSE nextslicecap(n, c)

sliceElems(h, s) == SubSeq(h[s.arr], 1, s.len)

sliceCap(h, s) == Len(h[s.arr])

otherSlice(which) == IF which = "Messages" THEN "ImportantMessages"
                     ELSE "Messages"

\* an array the slice `keep` does not point to
freshArray(keep) == CHOOSE a \in Arrays : a # keep.arr

\* mem is [heap, Messages, ImportantMessages]; the arrays no slice points
\* to are emptied
collect(mem) ==
    [mem EXCEPT !.heap =
        [a \in Arrays |->
            IF a = mem.Messages.arr \/ a = mem.ImportantMessages.arr
            THEN mem.heap[a] ELSE << >>]]

\* mem.which = append(mem.which, msg)
appendSlice(mem, which, msg) ==
    LET s == mem[which]
        other == mem[otherSlice(which)]
    IN IF s.len < sliceCap(mem.heap, s)
       THEN \* room left: the element is written into the array in place
            [mem EXCEPT !.heap[s.arr][s.len + 1] = msg,
                        ![which] = [arr |-> s.arr, len |-> s.len + 1]]
       ELSE \* a new array: the elements are copied, the rest is zero
            LET a == freshArray(other)
                newCap == nextslicecap(s.len + 1, sliceCap(mem.heap, s))
                elems == sliceElems(mem.heap, s) \o << msg >>
            IN collect([mem EXCEPT
                   !.heap[a] = elems \o zeros(newCap - Len(elems)),
                   ![which] = [arr |-> a, len |-> s.len + 1]])

\* mem.Messages = elems, where elems was built by appends to a new slice
assignNewSlice(mem, elems) ==
    LET a == freshArray(mem.ImportantMessages)
    IN collect([mem EXCEPT
           !.heap[a] = elems \o zeros(capAfterAppends(Len(elems)) - Len(elems)),
           !.Messages = [arr |-> a, len |-> Len(elems)]])

(***************************************************************************)
(* ContextWindow.  cw is the ContextWindow value: its three budgets, the   *)
(* two slices with the arrays they point to, and the summary text.         *)
(***************************************************************************)
NewContextWindow(maxTokens) ==
    [MaxTokens |-> maxTokens,
     ReservedTokens |-> 2000,
     SummaryTokens |-> 500,
     heap |-> [a \in Arrays |-> << >>],
     Messages |-> [arr |-> 1, len |-> 0],
     ImportantMessages |-> [arr |-> 2, len |-> 0],
     ConversationSummary |-> ""]

\* the elements of cw.Messages and of cw.ImportantMessages
Msgs(w) == sliceElems(w.heap, w.Messages)

Imps(w) == sliceElems(w.heap, w.ImportantMessages)

availableTokens(w) == w.MaxTokens - w.ReservedTokens - w.SummaryTokens

\* variant of overBudget that trims a window that is exactly full
overBudgetOrFull(w) ==
    calculateCurrentTokens(Msgs(w), w.ConversationSummary)
        >= availableTokens(w)

\* the negation of the early return of trimIfNeeded
overBudget(w) ==
    calculateCurrentTokens(Msgs(w), w.ConversationSummary)
        > availableTokens(w)

trimIfNeeded(w) ==
    IF ~overBudget(w) THEN w
    ELSE LET toSummarize == messagesToSummarize(Msgs(w))
             toKeep == messagesToKeep(Msgs(w))
             summarised ==
                 IF Len(toSummarize) > 0
                 THEN [w EXCEPT !.ConversationSummary =
                                    createSummary(@, toSummarize)]
                 ELSE w
         IN assignNewSlice(summarised, toKeep)

\* AddMessage up to the call of trimIfNeeded
appendMessage(w, role, content, important, id) ==
    LET message == NewMessage(role, content, important, id)
        w1 == IF important
              THEN appendSlice(w, "ImportantMessages", message)
              ELSE w
    IN appendSlice(w1, "Messages", message)

AddMessage(w, role, content, important, id) ==
    trimIfNeeded(appendMessage(w, role, content, important, id))

\* variant of GetContextualMessages that leaves the summary out
GetContextualMessagesNoSummary(w) == Msgs(w)

GetContextualMessages(w) ==
    (IF w.ConversationSummary # ""
     THEN << [Role |-> "system",
              Content |-> w.ConversationSummary,
              Tokens |-> EstimateTokens(w.ConversationSummary),
              Important |-> FALSE,
              MessageID |-> 0] >>
     ELSE << >>)
    \o Msgs(w)

\* variant of ClearConversation that keeps no message
ClearConversationToEmpty(w) ==
    assignNewSlice([w EXCEPT !.ConversationSummary = ""], << >>)

\* cw.Messages = cw.ImportantMessages copies the slice header, not the array
ClearConversation(w) ==
    collect([w EXCEPT !.Messages = w.ImportantMessages,
                      !.ConversationSummary = ""])

\* the index in messages of the first message with the id, 0 for none
firstWithID(messages, messageID) ==
    IF \E k \in 1..Len(messages) : messages[k].MessageID = messageID
    THEN CHOOSE k \in 1..Len(messages) :
             /\ messages[k].MessageID = messageID
             /\ \A j \in 1..(k - 1) : messages[j].MessageID # messageID
    ELSE 0

\* the flag is set in the array of Messages, then the element is appended
\* to ImportantMessages
MarkMessageImportant(w, messageID) ==
    LET i == firstWithID(Msgs(w), messageID)
        flagged == [w EXCEPT !.heap[w.Messages.arr][i].Important = TRUE]
    IN IF i = 0 THEN w
       ELSE appendSlice(flagged, "ImportantMessages", Msgs(flagged)[i])

(***************************************************************************)
(* GetUsagePercentage returns a float64.  The model keeps the quotient as  *)
(* the exact fraction num/den of the two integers the code converts, so    *)
(* that a zero or negative divisor stays visible; den = 0 stands for the   *)
(* +Inf or NaN that the float division by zero gives.                      *)
(***************************************************************************)
\* the float64 constant 100.0
Hundred == [num |-> 100, den |-> 1]

\* variant of GetUsagePercentage that clamps only a negative availability
GetUsagePercentageClampNegative(w) ==
    LET currentTokens == calculateCurrentTokens(Msgs(w),
                                                w.ConversationSummary)
        available == w.MaxTokens - w.ReservedTokens
    IN IF available < 0 THEN Hundred
       ELSE [num |-> currentTokens * 100, den |-> available]

GetUsagePercentage(w) ==
    LET currentTokens == calculateCurrentTokens(Msgs(w),
                                                w.ConversationSummary)
        available == w.MaxTokens - w.ReservedTokens
    IN IF available <= 0 THEN Hundred
       ELSE [num |-> currentTokens * 100, den |-> available]

(***************************************************************************)
(* extractTextToolCalls: four case-insensitive regular expressions of the  *)
(* form lead.*verb.*noun.*argument.  The model matches the literal         *)
(* alternatives in order; the argument is a quoted string or, for          *)
(* read_file, a dotted name and, for list_directory, "current" or ".".     *)
(* The word boundaries of the dotted name are not modelled.                *)
(***************************************************************************)
RECURSIVE matchInOrder(_, _)
matchInOrder(s, groups) ==
    IF Len(groups) = 0 THEN TRUE
    ELSE \E alt \in Head(groups) :
             \E i \in 1..(Len(s) - Len(alt) + 1) :
                 /\ SubSeq(s, i, i + Len(alt) - 1) = alt
                 /\ matchInOrder(SubSeq(s, i + Len(alt), Len(s)),
                                 Tail(groups))

isQuote(c) == c = "'" \/ c = "\""

isWordChar(c) ==
    \/ \E k \in 1..26 : CharAt(LowerCase, k) = c \/ CharAt(UpperCase, k) = c
    \/ \E k \in 1..10 : CharAt(DecDigits, k) = c
    \/ c = "_"

\* the suffixes of s that begin with a non-empty quoted string
quotedTails(s) ==
    { SubSeq(s, i, Len(s)) : i \in
        { i \in 1..Len(s) :
            /\ isQuote(CharAt(s, i))
            /\ \E j \in (i + 2)..Len(s) :
                   /\ isQuote(CharAt(s, j))
                   /\ \A k \in (i + 1)..(j - 1) : ~isQuote(CharAt(s, k)) } }

\* the suffixes of s that begin inside a name with a dot in it
dottedTails(s) ==
    { SubSeq(s, i, Len(s)) : i \in
        { i \in 2..(Len(s) - 1) :
            /\ CharAt(s, i) = "."
            /\ isWordChar(CharAt(s, i - 1))
            /\ isWordChar(CharAt(s, i + 1)) } }

leadWords == { "i'll", "let me", "i will" }

toolPatterns ==
    [read_file |->
        [words |-> << leadWords, { "read", "check", "look at", "examine" },
                      { "file" } >>,
         bare |-> {}, dotted |-> TRUE],
     list_directory |->
        [words |-> << leadWords, { "list", "check", "see" },
                      { "directory", "folder", "contents" } >>,
         bare |-> { "current", "." }, dotted |-> FALSE],
     find_files |->
        [words |-> << leadWords, { "find", "search for", "locate" },
                      { "files" }, { "pattern" } >>,
         bare |-> {}, dotted |-> FALSE],
     run_command |->
        [words |-> << leadWords, { "run", "execute" }, { "command" } >>,
         bare |-> {}, dotted |-> FALSE]]

matchesPattern(response, pattern) ==
    LET lowered == ToLower(response)
        arguments ==
            quotedTails(lowered) \cup pattern.bare
            \cup (IF pattern.dotted THEN dottedTails(lowered) ELSE {})
    IN matchInOrder(lowered, pattern.words \o << arguments >>)

\* the names of the tools that extractTextToolCalls finds in a response
extractTextToolCalls(response) ==
    { name \in DOMAIN toolPatterns :
        matchesPattern(response, toolPatterns[name]) }

\* extractTextToolCalls of every reply of the model, computed once
textToolTable ==
    [content \in ReplyContents |-> extractTextToolCalls(content)]

actionWords ==
    << "let me", "i'll", "i will", "i need to", "next", "now i", "first",
       "then" >>

hasActionWords(followUp) ==
    LET responseText == ToLower(followUp)
    IN \E k \in 1..Len(actionWords) :
           Contains(responseText, actionWords[k])

actionWordsTable ==
    [content \in ReplyContents |-> hasActionWords(content)]

(***************************************************************************)
(* ProcessMessage.  The answers of the model client are the inputs of a    *)
(* turn: script is the sequence of the answers to the Chat calls of the    *)
(* turn, and a call made after the script has run out fails.  An answer is *)
(* a transport error, a response with no choices, or a reply with its      *)
(* content, the number of its tool calls, and what the execution of the    *)
(* tool it asks for gives.  The value threaded through a turn holds the    *)
(* window, the count of AddMessage calls, the messages added, the ids      *)
(* summarized, the rest of the script and the number of Chat calls.        *)
(***************************************************************************)
ChatError ==
    [kind |-> "error", content |-> "", toolCalls |-> 0, tool |-> "ok"]

NoChoices ==
    [kind |-> "nochoices", content |-> "", toolCalls |-> 0, tool |-> "ok"]

Reply(content, toolCalls, tool) ==
    [kind |-> "reply", content |-> content, toolCalls |-> toolCalls,
     tool |-> tool]

ChatOutcomes ==
    { ChatError, NoChoices,
      Reply("Done.", 0, "ok"),
      Reply("Let me check the next step", 0, "ok"),
      Reply("Let me read the file 'a.go'", 0, "ok"),
      Reply("Let me read the file 'a.go'", 0, "fail") }
    \cup { Reply("", 1, tool) : tool \in ToolOutcomes }

Scripts == UNION { [1..n -> ChatOutcomes] : n \in 1..MaxChats }

\* Agent.AddMessage on the value threaded through a turn
agentAdd(st, role, content) ==
    LET important == importanceTable[<< role, content >>]
        id == st.nextID + 1
        appended == appendMessage(st.cw, role, content, important, id)
    IN [st EXCEPT
          !.cw = AddMessage(st.cw, role, content, important, id),
          !.nextID = id,
          !.history = Append(@, NewMessage(role, content, important, id)),
          !.summarized = @ \cup
              (IF overBudget(appended)
               THEN { m.MessageID : m \in
                        { messagesToSummarize(Msgs(appended))[k] :
                            k \in 1..Len(messagesToSummarize(Msgs(appended))) } }
               ELSE {})]

\* the answer to the next Chat call, and the value after the call
nextOutcome(st) == IF Len(st.script) = 0 THEN ChatError ELSE Head(st.script)

afterChat(st) ==
    [st EXCEPT !.script = IF Len(@) = 0 THEN @ ELSE Tail(@),
               !.chats = @ + 1]

\* the bound of the loop of continueConversationUntilComplete
maxIterations == 200

\* the first message of continueConversationUntilComplete
followUp(st, toolResults) ==
    agentAdd(st, "user", followUpPrompt(toolResults))

RECURSIVE continueLoop(_, _)

\* the rest of an iteration once the assistant's reply has been added;
\* tool calls of the reply are executed, which continues the conversation
\* in a loop of its own before this one goes on
afterFollowUpReply(replied, followUpResponse, i) ==
    IF followUpResponse.toolCalls > 0
    THEN continueLoop(
             continueLoop(
                 followUp(replied, toolResultsMessage(followUpResponse.tool)),
                 0),
             i + 1)
    ELSE IF ~actionWordsTable[followUpResponse.content]
    THEN replied
    ELSE continueLoop(agentAdd(replied, "user", anythingElsePrompt), i + 1)

\* the rest of an iteration once Chat has answered
afterFollowUpChat(called, followUpResponse, i) ==
    IF followUpResponse.kind # "reply" THEN called
    ELSE afterFollowUpReply(
             agentAdd(called, "assistant", followUpResponse.content),
             followUpResponse, i)

\* the for loop of continueConversationUntilComplete from iteration i on
continueLoop(st, i) ==
    IF i >= maxIterations THEN st
    ELSE afterFollowUpChat(afterChat(st), nextOutcome(st), i)

continueConversationUntilComplete(st, toolResults) ==
    continueLoop(followUp(st, toolResults), 0)

\* as to the window: the tool results are joined and the conversation goes on
executeOpenRouterToolCalls(st, tool) ==
    continueConversationUntilComplete(st, toolResultsMessage(tool))

executeTextToolCalls(st, tool) ==
    continueConversationUntilComplete(st, toolResultsMessage(tool))

\* ProcessMessage once the assistant's reply has been added
afterReply(replied, response) ==
    IF response.toolCalls > 0
    THEN [st |-> executeOpenRouterToolCalls(replied, response.tool),
          err |-> ""]
    ELSE IF textToolTable[response.content] # {}
    THEN [st |-> executeTextToolCalls(replied, response.tool), err |-> ""]
    ELSE [st |-> replied, err |-> ""]

\* ProcessMessage once Chat has answered
afterResponse(called, response) ==
    IF response.kind = "error"
    THEN [st |-> called, err |-> "failed to get AI response"]
    ELSE IF response.kind = "nochoices"
    THEN [st |-> called, err |-> "no response from AI"]
    ELSE afterReply(agentAdd(called, "assistant", response.content),
                    response)

\* ProcessMessage once the user's message has been added
afterUserMessage(asked) == afterResponse(afterChat(asked), nextOutcome(asked))

ProcessMessageAlwaysPrompts(st, userMessage) ==
    afterUserMessage(
        agentAdd(agentAdd(st, "system", SystemPrompt), "user", userMessage))

ProcessMessage(st, userMessage) ==
    afterUserMessage(
        agentAdd(IF Len(GetContextualMessages(st.cw)) = 0
                 THEN agentAdd(st, "system", SystemPrompt)
                 ELSE st,
                 "user", userMessage))

(***************************************************************************)
(* SessionContext.  A time.Time is its instant and whether it carries a    *)
(* monotonic clock reading, as every result of time.Now() does.  Paths and *)
(* task descriptions are strings.                                          *)
(***************************************************************************)
Now(instant) == [instant |-> instant, monotonic |-> TRUE]

(***************************************************************************)
(* The file system as NewSessionContext and DetectProjectType see it: the  *)
(* working directory /work, which os.Getwd fails to give once it has been  *)
(* removed, its parent /, and the marker files in each for which os.Stat   *)
(* succeeds.                                                               *)
(***************************************************************************)
Markers ==
    { ".git", "go.mod", "package.json", "requirements.txt",
      "pyproject.toml", "setup.py", "Cargo.toml" }

filesAt(env, dir) ==
    IF dir = "/work" THEN env.work
    ELSE IF dir = "/" THEN env.parent
    ELSE {}

rootIndicators ==
    { ".git", "go.mod", "package.json", "Cargo.toml", "pyproject.toml",
      "requirements.txt" }

\* the walk from startDir up to the root of the file system
findProjectRoot(env, startDir) ==
    IF startDir = "/work" /\ filesAt(env, "/work") \cap rootIndicators # {}
    THEN "/work"
    ELSE IF startDir = "/work" /\ filesAt(env, "/") \cap rootIndicators # {}
    THEN "/"
    ELSE startDir

NewSessionContext(env, now) ==
    LET wd == IF env.cwd THEN "/work" ELSE ""
    IN [FocusedFiles |-> << >>,
        OpenFiles |-> << >>,
        WorkingDir |-> wd,
        ProjectRoot |-> findProjectRoot(env, wd),
        RecentFiles |-> << >>,
        CurrentTask |-> "",
        TaskHistory |-> << >>,
        UserPreferences |-> << >>,
        ProjectType |-> "",
        SessionID |-> "session_" \o FormatInt(now),
        CreatedAt |-> Now(now),
        UpdatedAt |-> Now(now)]

pythonIndicators == { "requirements.txt", "pyproject.toml", "setup.py" }

\* variant of DetectProjectType that looks for Cargo.toml before the
\* Python files
DetectProjectTypeRustFirst(s, env) ==
    LET present == filesAt(env, s.ProjectRoot)
    IN IF s.ProjectRoot = "" THEN s
       ELSE [s EXCEPT !.ProjectType =
               IF "go.mod" \in present THEN "go"
               ELSE IF "package.json" \in present THEN "nodejs"
               ELSE IF "Cargo.toml" \in present THEN "rust"
               ELSE IF present \cap pythonIndicators # {} THEN "python"
               ELSE "unknown"]

DetectProjectType(s, env) ==
    LET present == filesAt(env, s.ProjectRoot)
    IN IF s.ProjectRoot = "" THEN s
       ELSE [s EXCEPT !.ProjectType =
               IF "go.mod" \in present THEN "go"
               ELSE IF "package.json" \in present THEN "nodejs"
               ELSE IF present \cap pythonIndicators # {} THEN "python"
               ELSE IF "Cargo.toml" \in present THEN "rust"
               ELSE "unknown"]

\* the session context that NewAgent builds
NewAgentSession(env, now) ==
    DetectProjectType(NewSessionContext(env, now), env)

\* a Go project under version control
DefaultFiles ==
    [cwd |-> TRUE, work |-> { ".git", "go.mod" }, parent |-> {}]

maxFocusedFiles == 10

maxRecentFiles == 20

\* append(list[:i], list[i+1:]...) for the first i with list[i] = filepath
RECURSIVE removeFirst(_, _)
removeFirst(list, filepath) ==
    IF Len(list) = 0 THEN list
    ELSE IF Head(list) = filepath THEN Tail(list)
    ELSE << Head(list) >> \o removeFirst(Tail(list), filepath)

\* list[:n] when the list is longer than n
keepFirst(list, n) ==
    IF Len(list) > n THEN SubSeq(list, 1, n) ELSE list

RemoveFocusedFile(s, filepath, now) ==
    [s EXCEPT !.FocusedFiles = removeFirst(@, filepath),
              !.UpdatedAt = Now(now)]

\* variant of AddFocusedFile that does not remove the path first
AddFocusedFileNoRemove(s, filepath, now) ==
    [s EXCEPT !.FocusedFiles =
                  keepFirst(<< filepath >> \o @, maxFocusedFiles),
              !.UpdatedAt = Now(now)]

AddFocusedFile(s, filepath, now) ==
    [RemoveFocusedFile(s, filepath, now) EXCEPT
        !.FocusedFiles = keepFirst(<< filepath >> \o @, maxFocusedFiles),
        !.UpdatedAt = Now(now)]

ClearFocusedFiles(s, now) ==
    [s EXCEPT !.FocusedFiles = << >>, !.UpdatedAt = Now(now)]

SetCurrentTask(s, task, now) ==
    [s EXCEPT !.CurrentTask = task, !.UpdatedAt = Now(now)]

\* variant of CompleteCurrentTask that leaves the current task set
CompleteCurrentTaskKeeping(s, filesChanged, now) ==
    IF s.CurrentTask # ""
    THEN [s EXCEPT !.TaskHistory =
                       Append(@, [Description |-> s.CurrentTask,
                                  CompletedAt |-> Now(now),
                                  FilesChanged |-> filesChanged]),
                   !.UpdatedAt = Now(now)]
    ELSE s

\* the two readings of time.Now() are taken as the same instant
CompleteCurrentTask(s, filesChanged, now) ==
    IF s.CurrentTask # ""
    THEN [s EXCEPT !.TaskHistory =
                       Append(@, [Description |-> s.CurrentTask,
                                  CompletedAt |-> Now(now),
                                  FilesChanged |-> filesChanged]),
                   !.CurrentTask = "",
                   !.UpdatedAt = Now(now)]
    ELSE s

\* variant of AddRecentFile that does not remove the path first
AddRecentFileNoRemove(s, filepath, now) ==
    [s EXCEPT !.RecentFiles =
                  keepFirst(<< filepath >> \o @, maxRecentFiles),
              !.UpdatedAt = Now(now)]

AddRecentFile(s, filepath, now) ==
    [s EXCEPT !.RecentFiles =
                  keepFirst(<< filepath >> \o removeFirst(@, filepath),
                            maxRecentFiles),
              !.UpdatedAt = Now(now)]

(***************************************************************************)
(* SaveToFile and LoadFromFile.  json.MarshalIndent writes every string    *)
(* coerced to valid UTF-8: each byte that is not valid UTF-8 becomes the   *)
(* replacement character U+FFFD.  In the strings of the model "#" stands   *)
(* for such a byte and "?" for U+FFFD.  A time.Time is written in RFC 3339 *)
(* with nanoseconds, which keeps the instant and drops the monotonic       *)
(* reading.  json.Unmarshal reads back what the document says.             *)
(***************************************************************************)
invalidByte == "#"

replacementChar == "?"

RECURSIVE jsonString(_)
jsonString(str) ==
    IF Len(str) = 0 THEN ""
    ELSE IF Len(str) = 1
    THEN (IF str = invalidByte THEN replacementChar ELSE str)
    ELSE LET half == Len(str) \div 2
         IN jsonString(SubSeq(str, 1, half))
                \o jsonString(SubSeq(str, half + 1, Len(str)))

jsonStrings(list) == [i \in 1..Len(list) |-> jsonString(list[i])]

jsonTime(t) == [instant |-> t.instant, monotonic |-> FALSE]

jsonCompletedTask(task) ==
    [Description |-> jsonString(task.Description),
     CompletedAt |-> jsonTime(task.CompletedAt),
     FilesChanged |-> jsonStrings(task.FilesChanged)]

\* the document that json.MarshalIndent(sc, "", "  ") describes
MarshalIndent(s) ==
    [FocusedFiles |-> jsonStrings(s.FocusedFiles),
     OpenFiles |-> s.OpenFiles,
     WorkingDir |-> jsonString(s.WorkingDir),
     ProjectRoot |-> jsonString(s.ProjectRoot),
     RecentFiles |-> jsonStrings(s.RecentFiles),
     CurrentTask |-> jsonString(s.CurrentTask),
     TaskHistory |-> [i \in 1..Len(s.TaskHistory) |->
                         jsonCompletedTask(s.TaskHistory[i])],
     UserPreferences |-> s.UserPreferences,
     ProjectType |-> jsonString(s.ProjectType),
     SessionID |-> jsonString(s.SessionID),
     CreatedAt |-> jsonTime(s.CreatedAt),
     UpdatedAt |-> jsonTime(s.UpdatedAt)]

\* the SessionContext that json.Unmarshal fills from a document
Unmarshal(document) ==
    [field \in DOMAIN document |-> document[field]]

\* the session file: absent, not a JSON document, or a document
MissingFile == [status |-> "missing", document |-> << >>]

CorruptFile == [status |-> "corrupt", document |-> << >>]

WrittenFile(document) == [status |-> "written", document |-> document]

\* os.WriteFile truncates the file and writes; when it fails the file is
\* left as it was, or cut short
SaveToFile(s, file, outcome) ==
    IF outcome = "ok"
    THEN [file |-> WrittenFile(MarshalIndent(s)), err |-> ""]
    ELSE IF outcome = "failed before the write"
    THEN [file |-> file, err |-> "open failed"]
    ELSE [file |-> CorruptFile, err |-> "write failed"]

WriteOutcomes == { "ok", "failed before the write", "failed in the write" }

LoadFromFile(file) ==
    IF file.status = "missing"
    THEN [sc |-> << >>, err |-> "no such file"]
    ELSE IF file.status = "corrupt"
    THEN [sc |-> << >>, err |-> "unexpected end of JSON input"]
    ELSE [sc |-> Unmarshal(file.document), err |-> ""]

(***************************************************************************)
(* CommandRegistry.  The table maps the names registered to commands; a    *)
(* command is the name that its Name method returns.  The RWMutex          *)
(* is held by one writer or by a set of readers, and a goroutine blocked   *)
(* in Lock keeps new readers out.                                          *)
(***************************************************************************)
Threads == 1..NumThreads

CommandNames == { "focus", "help" }

NewCommandRegistry == [name \in {} |-> 0]

\* r.commands[name] = cmd
mapStore(table, name, cmd) ==
    [n \in DOMAIN table \cup { name } |->
        IF n = name THEN cmd ELSE table[n]]

\* cmd, exists := r.commands[name], as the set of the commands found
mapLookup(table, name) ==
    IF name \in DOMAIN table THEN { table[name] } ELSE {}

\* the commands that a range over the table visits
mapValues(table) == { table[n] : n \in DOMAIN table }

canLock(m) == m.writer = 0 /\ m.readers = {}

canRLock(m) == m.writer = 0 /\ m.pending = {}

\* variant of RegisterLock: Register takes the lock as a reader
RegisterLockShared == "RLock"

\* the lock that Register takes
RegisterLock == "Lock"

lockOf(op) == IF op = "Register" THEN RegisterLock ELSE "RLock"

\* variant of ExecuteUnlock: Execute defers RUnlock to its return
ExecuteUnlockDeferred == "defer"

\* how Execute releases the lock: RUnlock right after the lookup
ExecuteUnlock == "now"

\* Register, GetCommand and ListCommands unlock by defer, at their return
unlockOf(op) == IF op = "Execute" THEN ExecuteUnlock ELSE "defer"

\* Unlock or RUnlock by the goroutine t
unlock(m, t) ==
    [m EXCEPT !.writer = IF @ = t THEN 0 ELSE @, !.readers = @ \ { t }]

isSpace(c) == c = " " \/ c = "\t" \/ c = "\n"

RECURSIVE dropSpaces(_)
dropSpaces(str) ==
    IF Len(str) > 0 /\ isSpace(CharAt(str, 1))
    THEN dropSpaces(SubSeq(str, 2, Len(str)))
    ELSE str

RECURSIVE takeWord(_)
takeWord(str) ==
    IF Len(str) = 0 \/ isSpace(CharAt(str, 1)) THEN ""
    ELSE CharAt(str, 1) \o takeWord(SubSeq(str, 2, Len(str)))

RECURSIVE dropWord(_)
dropWord(str) ==
    IF Len(str) = 0 \/ isSpace(CharAt(str, 1)) THEN str
    ELSE dropWord(SubSeq(str, 2, Len(str)))

\* the beginning of Execute: is it a command, what is its name, and what
\* is its first argument ("" when it has none)
parseCommand(input) ==
    IF ~HasPrefix(input, "/")
    THEN [handled |-> FALSE, err |-> "", cmdName |-> "", arg |-> ""]
    ELSE LET fields == dropSpaces(SubSeq(input, 2, Len(input)))
             cmdName == takeWord(fields)
         IN IF cmdName = ""
            THEN [handled |-> TRUE, err |-> "empty command",
                  cmdName |-> "", arg |-> ""]
            ELSE [handled |-> TRUE, err |-> "", cmdName |-> cmdName,
                  arg |-> takeWord(dropSpaces(dropWord(fields)))]

ExecuteInputs == { "/focus f1.go", "/help", "/help focus", "hello", "/ " }

\* a goroutine outside the registry, in no call; running is the name of the
\* command that the goroutine's Execute is running
IdleThread ==
    [pc |-> "idle", op |-> "", name |-> "", arg |-> "", known |-> {},
     out |-> {}, answered |-> FALSE, running |-> ""]

(***************************************************************************)
(* The default registry and the commands of the read loop.  A command      *)
(* that runs gives its result and its error ("" for none).                 *)
(***************************************************************************)
DefaultCommands ==
    { "clear", "context", "focus", "workspace", "bookmark", "model",
      "verbosity", "help" }

NewDefaultRegistry == [name \in DefaultCommands |-> [name |-> name]]

ExitCommandExecute(argument) ==
    IF argument # ""
    THEN [result |-> "", err |-> "exit command takes no arguments"]
    ELSE [result |-> "EXIT_APPLICATION", err |-> ""]

\* HelpCommand.Execute, by the first line of what it returns
HelpCommandExecute(table, argument) ==
    IF argument = ""
    THEN [result |-> "Agent_Go - Available Commands", err |-> ""]
    ELSE IF mapLookup(table, argument) # {}
    THEN [result |-> "Command: /" \o argument, err |-> ""]
    ELSE [result |-> "Command '" \o argument \o "' not found.",
          err |-> ""]

\* cmd.Execute(args, ctx) for the commands that the read loop is given
commandExecute(table, cmd, argument) ==
    IF cmd.name = "exit" THEN ExitCommandExecute(argument)
    ELSE HelpCommandExecute(table, argument)

\* CommandRegistry.Execute called by one goroutine
registryExecute(table, input) ==
    LET parsed == parseCommand(input)
        found == mapLookup(table, parsed.cmdName)
    IN IF ~parsed.handled
       THEN [result |-> "", isCommand |-> FALSE, err |-> ""]
       ELSE IF parsed.err # ""
       THEN [result |-> "", isCommand |-> TRUE, err |-> parsed.err]
       ELSE IF found = {}
       THEN [result |-> "", isCommand |-> TRUE,
             err |-> "unknown command: /" \o parsed.cmdName]
       ELSE LET ran == commandExecute(table, CHOOSE cmd \in found : TRUE,
                                      parsed.arg)
            IN [result |-> ran.result, isCommand |-> TRUE, err |-> ran.err]

RECURSIVE dropTrailingSpaces(_)
dropTrailingSpaces(str) ==
    IF Len(str) > 0 /\ isSpace(CharAt(str, Len(str)))
    THEN dropTrailingSpaces(SubSeq(str, 1, Len(str) - 1))
    ELSE str

TrimSpace(str) == dropTrailingSpaces(dropSpaces(str))

\* the lines typed at the prompt
InteractiveInputs ==
    { "", "exit", "/exit", " /exit ", "/exit now", "/help", "/help exit",
      "hello" }

\* what one pass of the loop of runInteractiveMode does with a line, but
\* for the call of handleMessage itself
readLoop(table, line) ==
    LET input == TrimSpace(line)
        executed == registryExecute(table, input)
    IN IF input = ""
       THEN [state |-> "reading", input |-> input, output |-> "",
             sent |-> FALSE]
       ELSE IF input \in { "exit", "quit", "q" }
       THEN [state |-> "stopped", input |-> input, output |-> "Goodbye!",
             sent |-> FALSE]
       ELSE IF executed.isCommand /\ executed.err # ""
       THEN [state |-> "reading", input |-> input,
             output |-> "Command error: " \o executed.err, sent |-> FALSE]
       ELSE IF executed.isCommand /\ executed.result = "EXIT_APPLICATION"
       THEN [state |-> "stopped", input |-> input, output |-> "Goodbye!",
             sent |-> FALSE]
       ELSE IF executed.isCommand
       THEN [state |-> "reading", input |-> input,
             output |-> executed.result, sent |-> FALSE]
       ELSE [state |-> "reading", input |-> input, output |-> "",
             sent |-> TRUE]

(***************************************************************************)
(* LoadingIndicator.  closes counts the calls of close(l.stopChan), wg is  *)
(* the counter of the WaitGroup and mu the goroutine that holds the mutex  *)
(* (0 for none).                                                           *)
(***************************************************************************)
Callers == 1..NumCallers

NewLoadingIndicator ==
    [isRunning |-> FALSE, mu |-> 0, closes |-> 0, wg |-> 0,
     animators |-> 0, panicked |-> FALSE]

IdleCaller == [pc |-> "idle", op |-> "", done |-> 0]

(***************************************************************************)
(* State.  cw is the agent's context window and nextID the number of       *)
(* AddMessage calls made.  The other variables record what the properties  *)
(* speak about: the last operation, the window at the entry of the last    *)
(* trimIfNeeded or ClearConversation, the value returned by                *)
(* GetContextualMessages when it was the last operation, the messages      *)
(* added since the start or the last clear, and the ids that a trimming    *)
(* step has put into messagesToSummarize.                                  *)
(***************************************************************************)
VARIABLES cw, nextID, lastOp, entry, result, history, summarized,
          specials, clears

(***************************************************************************)
(* sc is the agent's SessionContext and clock the reading of time.Now().   *)
(* arg is the argument of the last operation on the session and used       *)
(* counts the operations of a session against the bounds.                  *)
(***************************************************************************)
VARIABLES sc, clock, arg, used

\* disk is the session file: missing, corrupt, or holding a document;
\* fs is the rest of the file system
VARIABLES disk, fs

sessionVars == << sc, clock, arg, used, disk, fs >>

(***************************************************************************)
(* commands is the table of the CommandRegistry and mu its RWMutex.        *)
(* threads gives for each goroutine where it is in its call of the         *)
(* registry, with the arguments and the answer of the call; registered is  *)
(* the set of names whose Register has returned, and calls counts the      *)
(* calls made.                                                             *)
(***************************************************************************)
VARIABLES commands, mu, threads, registered, calls

registryVars == << commands, mu, threads, registered, calls >>

(***************************************************************************)
(* repl is the read loop of runInteractiveMode: whether it is still        *)
(* reading, the number of lines read, and for the last line its trimmed    *)
(* text, what the loop printed for it and whether it was handed to         *)
(* handleMessage.  li is a LoadingIndicator and goroutines gives for each  *)
(* goroutine that calls it, and for the animation goroutines it starts,    *)
(* where they are.                                                         *)
(***************************************************************************)
VARIABLES repl, li, goroutines

uiVars == << repl, li, goroutines >>

vars == << cw, nextID, lastOp, entry, result, history, summarized,
           specials, clears, sessionVars, registryVars, uiVars >>

InitUI ==
    /\ repl = [state |-> "reading", lines |-> 0, input |-> "",
               output |-> "", sent |-> FALSE]
    /\ li = NewLoadingIndicator
    /\ goroutines = [g \in Callers |-> IdleCaller]

InitRegistry ==
    /\ commands = NewCommandRegistry
    /\ mu = [writer |-> 0, readers |-> {}, pending |-> {}]
    /\ threads = [t \in Threads |-> IdleThread]
    /\ registered = {}
    /\ calls = 0

InitSession ==
    /\ fs = DefaultFiles
    /\ sc = NewAgentSession(fs, 0)
    /\ clock = 1
    /\ arg = ""
    /\ used = [focus |-> 0, recent |-> 0, other |-> 0]
    /\ disk = MissingFile

Init ==
    /\ cw = NewContextWindow(ModelContextLimit)
    /\ nextID = 0
    /\ lastOp = "NewContextWindow"
    /\ entry = cw
    /\ result = << >>
    /\ history = << >>
    /\ summarized = {}
    /\ specials = 0
    /\ clears = 0
    /\ InitSession
    /\ InitRegistry
    /\ InitUI

idsOf(messages) == { messages[k].MessageID : k \in 1..Len(messages) }

\* Agent.AddMessage(role, content)
AgentAddMessage(role, content) ==
    LET important == importanceTable[<< role, content >>]
        id == nextID + 1
        appended == appendMessage(cw, role, content, important, id)
    IN /\ cw' = AddMessage(cw, role, content, important, id)
       /\ nextID' = id
       /\ lastOp' = "AddMessage"
       /\ entry' = appended
       /\ result' = << >>
       /\ history' = Append(history, NewMessage(role, content, important, id))
       /\ summarized' = summarized \cup
              (IF overBudget(appended)
               THEN idsOf(messagesToSummarize(Msgs(appended))) ELSE {})
       /\ specials' = IF << role, content >> \in SpecialInputs
                      THEN specials + 1 ELSE specials
       /\ UNCHANGED clears
       /\ UNCHANGED << sessionVars, registryVars, uiVars >>

\* one more call of trimIfNeeded, with no AddMessage in between
TrimIfNeeded ==
    /\ cw' = trimIfNeeded(cw)
    /\ lastOp' = "trimIfNeeded"
    /\ entry' = cw
    /\ result' = << >>
    /\ summarized' = summarized \cup
           (IF overBudget(cw)
            THEN idsOf(messagesToSummarize(Msgs(cw))) ELSE {})
    /\ UNCHANGED << nextID, history, specials, clears >>
    /\ UNCHANGED << sessionVars, registryVars, uiVars >>

\* Agent.GetConversationHistory reads the window through this call
GetContextualMessagesCall ==
    /\ result' = GetContextualMessages(cw)
    /\ lastOp' = "GetContextualMessages"
    /\ UNCHANGED << cw, nextID, entry, history, summarized, specials,
                    clears >>
    /\ UNCHANGED << sessionVars, registryVars, uiVars >>

\* ClearCommand.Execute -> Agent.ClearConversation
AgentClearConversation ==
    /\ clears < MaxClears
    /\ cw' = ClearConversation(cw)
    /\ lastOp' = "ClearConversation"
    /\ entry' = cw
    /\ result' = << >>
    /\ history' = << >>
    /\ clears' = clears + 1
    /\ UNCHANGED << nextID, summarized, specials >>
    /\ UNCHANGED << sessionVars, registryVars, uiVars >>

AddAnyMessage ==
    \E input \in Inputs :
        /\ nextID < MaxAdds
        /\ input \in SpecialInputs => specials < MaxSpecial
        /\ AgentAddMessage(input[1], input[2])

AddMessageClearSession ==
    \E input \in ClearInputs :
        /\ nextID < MaxAddsClear
        /\ AgentAddMessage(input[1], input[2])

\* sessions of AddMessage calls
Next ==
    \/ AddAnyMessage
    \/ TrimIfNeeded
    \/ GetContextualMessagesCall

Spec == Init /\ [][Next]_vars

\* sessions with ClearConversation
NextClear ==
    \/ AddMessageClearSession
    \/ AgentClearConversation

SpecClear == Init /\ [][NextClear]_vars

(***************************************************************************)
(* Long sessions of short messages, in which every AddMessage past the     *)
(* first ones folds a message into the summary.                            *)
(***************************************************************************)
AddMessageSummarySession ==
    \E input \in ClearInputs :
        /\ nextID < MaxAddsSummary
        /\ input \in SpecialInputs => specials < MaxSpecial
        /\ AgentAddMessage(input[1], input[2])

NextSummary ==
    \/ AddMessageSummarySession
    \/ GetContextualMessagesCall

SpecSummary == Init /\ [][NextSummary]_vars

(***************************************************************************)
(* Sessions with MarkMessageImportant: the id marked is that of the oldest *)
(* message added, of the newest, or one that no message has.  Few of the   *)
(* messages added are important from the start.                            *)
(***************************************************************************)
MarkMessageImportantCall(messageID) ==
    /\ cw' = MarkMessageImportant(cw, messageID)
    /\ lastOp' = "MarkMessageImportant"
    /\ entry' = cw
    /\ result' = [marked |-> messageID]
    /\ UNCHANGED << nextID, history, summarized, specials, clears >>
    /\ UNCHANGED << sc, clock, arg, disk, fs, registryVars, uiVars >>

MarkMessage ==
    \E messageID \in { 1, nextID, nextID + 1 } :
        /\ used.other < MaxMarks
        /\ used' = [used EXCEPT !.other = @ + 1]
        /\ MarkMessageImportantCall(messageID)

AddMessageMarkSession ==
    \E input \in ClearInputs :
        /\ nextID < MaxAddsMark
        /\ input \in SpecialInputs => specials < MaxSpecialMark
        /\ AgentAddMessage(input[1], input[2])

ClearMarkSession == clears < MaxClearsMark /\ AgentClearConversation

NextMark ==
    \/ AddMessageMarkSession
    \/ MarkMessage
    \/ ClearMarkSession

SpecMark == Init /\ [][NextMark]_vars

(***************************************************************************)
(* Windows whose exported budget fields were set after construction, as    *)
(* in a window of 1000 tokens with 1000 reserved, next to windows built by *)
(* NewContextWindow alone for models of 1500, 2000 and ModelContextLimit   *)
(* tokens: MaxTokens - ReservedTokens is 0, negative or positive.          *)
(***************************************************************************)
UsageWindows ==
    { [NewContextWindow(1000) EXCEPT !.ReservedTokens = 1000],
      NewContextWindow(1500),
      NewContextWindow(2000),
      NewContextWindow(ModelContextLimit) }

InitUsage ==
    /\ cw \in UsageWindows
    /\ nextID = 0
    /\ lastOp = "NewContextWindow"
    /\ entry = cw
    /\ result = << >>
    /\ history = << >>
    /\ summarized = {}
    /\ specials = 0
    /\ clears = 0
    /\ InitSession
    /\ InitRegistry
    /\ InitUI

AddMessageUsageSession ==
    \E input \in ClearInputs :
        /\ nextID < MaxAddsUsage
        /\ AgentAddMessage(input[1], input[2])

\* getContextStatus of the command line reads the percentage
GetUsagePercentageCall ==
    /\ result' = GetUsagePercentage(cw)
    /\ lastOp' = "GetUsagePercentage"
    /\ UNCHANGED << cw, nextID, entry, history, summarized, specials,
                    clears >>
    /\ UNCHANGED << sessionVars, registryVars, uiVars >>

NextUsage ==
    \/ AddMessageUsageSession
    \/ GetUsagePercentageCall

SpecUsage == InitUsage /\ [][NextUsage]_vars

(***************************************************************************)
(* The trimming scenario: a window of 2000 tokens with 200 reserved and a  *)
(* summary budget of 100, one system message, then user and assistant      *)
(* messages in turn, all of one size, with reads of the window and further *)
(* trimming passes in between.                                             *)
(***************************************************************************)
ScenarioWindow ==
    [NewContextWindow(2000) EXCEPT !.ReservedTokens = 200,
                                   !.SummaryTokens = 100]

InitScenario ==
    /\ cw = ScenarioWindow
    /\ nextID = 0
    /\ lastOp = "NewContextWindow"
    /\ entry = cw
    /\ result = << >>
    /\ history = << >>
    /\ summarized = {}
    /\ specials = 0
    /\ clears = 0
    /\ InitSession
    /\ InitRegistry
    /\ InitUI

\* the role of the message added after n messages
scenarioRole(n) ==
    IF n = 0 THEN "system"
    ELSE IF n % 2 = 1 THEN "user" ELSE "assistant"

AddScenarioMessage ==
    \E input \in ScenarioInputs :
        /\ nextID < 1 + 2 * MaxPairs
        /\ input[1] = scenarioRole(nextID)
        /\ nextID >= 2 => Len(input[2]) = Len(history[2].Content)
        /\ AgentAddMessage(input[1], input[2])

NextScenario ==
    \/ AddScenarioMessage
    \/ TrimIfNeeded
    \/ GetContextualMessagesCall

SpecScenario == InitScenario /\ [][NextScenario]_vars

(***************************************************************************)
(* Turns of ProcessMessage on a fresh agent.                               *)
(***************************************************************************)
processTurn(userMessage, script) ==
    /\ LET turn == ProcessMessage(
                       [cw |-> cw, nextID |-> nextID,
                        history |-> history, summarized |-> summarized,
                        script |-> script, chats |-> 0],
                       userMessage)
       IN /\ cw' = turn.st.cw
          /\ nextID' = turn.st.nextID
          /\ history' = turn.st.history
          /\ summarized' = turn.st.summarized
          /\ result' = [err |-> turn.err, chats |-> turn.st.chats,
                         answer |-> script[1], first |-> Len(history) + 1]
    /\ lastOp' = "ProcessMessage"
    /\ entry' = cw
    /\ UNCHANGED << specials, clears >>

ProcessMessageTurn(userMessage, script) ==
    /\ processTurn(userMessage, script)
    /\ UNCHANGED << sc, clock, arg, disk, fs, registryVars, uiVars >>

ProcessMessageCall ==
    \E userMessage \in UserMessages, script \in Scripts :
        /\ nextID < MaxTurnAdds
        /\ ProcessMessageTurn(userMessage, script)
        /\ UNCHANGED used

NextProcess ==
    \/ ProcessMessageCall
    \/ GetContextualMessagesCall

SpecProcess == Init /\ [][NextProcess]_vars

(***************************************************************************)
(* Sessions of ProcessMessage turns and /clear commands.                   *)
(***************************************************************************)
\* the model answers at once, answers after one tool call that succeeds,
\* asks for a tool that fails and then is out of reach, or is out of reach
TurnScripts ==
    { << Reply("Done.", 0, "ok") >>,
      << Reply("", 1, "ok"), Reply("Done.", 0, "ok") >>,
      << Reply("", 1, "fail") >>,
      << ChatError >> }

TurnInSession ==
    \E userMessage \in UserMessages, script \in TurnScripts :
        /\ nextID < MaxAddsTurns
        /\ ProcessMessageTurn(userMessage, script)
        /\ UNCHANGED used

NextTurns ==
    \/ TurnInSession
    \/ AgentClearConversation

SpecTurns == Init /\ [][NextTurns]_vars

(***************************************************************************)
(* Turns of ProcessMessage with a model client that keeps asking for       *)
(* tools: in every answer, or in every answer of a loop while the first    *)
(* call of the loop started for those tools fails.  Calls beyond the       *)
(* script fail.                                                            *)
(***************************************************************************)
allToolCalls(n) == [k \in 1..n |-> Reply("", 1, "ok")]

toolCallsThenFailure(n) ==
    [k \in 1..n |-> IF k = 1 \/ k % 2 = 0 THEN Reply("", 1, "ok")
                    ELSE ChatError]

LongScripts ==
    { allToolCalls(n) : n \in 1..MaxShortScript }
    \cup { toolCallsThenFailure(n) :
               n \in (1..MaxShortScript) \cup { MaxLongScript } }

LongTurn ==
    \E userMessage \in UserMessages, script \in LongScripts :
        /\ nextID = 0
        /\ ProcessMessageTurn(userMessage, script)
        /\ UNCHANGED used

NextLongTurn ==
    \/ LongTurn
    \/ GetContextualMessagesCall

SpecLongTurn == Init /\ [][NextLongTurn]_vars

(***************************************************************************)
(* Operations on the session.  Each one reads the clock once, records its  *)
(* argument and the SessionContext it started from, and leaves the window  *)
(* alone.  The paths of a session are f1.go, f2.go, ... in the order of    *)
(* their first use.                                                        *)
(***************************************************************************)
windowVars == << cw, nextID, history, summarized, specials, clears >>

path(k) == "f" \o FormatInt(k) \o ".go"

sessionOp(name, argument, after) ==
    /\ sc' = after
    /\ UNCHANGED << disk, fs >>
    /\ lastOp' = name
    /\ arg' = argument
    /\ entry' = sc
    /\ result' = << >>
    /\ clock' = clock + 1
    /\ UNCHANGED << windowVars, registryVars, uiVars >>

AgentAddFocusedFile(filepath) ==
    sessionOp("AddFocusedFile", filepath,
              AddFocusedFile(sc, filepath, clock))

AgentRemoveFocusedFile(filepath) ==
    sessionOp("RemoveFocusedFile", filepath,
              RemoveFocusedFile(sc, filepath, clock))

AgentClearFocusedFiles ==
    sessionOp("ClearFocusedFiles", "", ClearFocusedFiles(sc, clock))

AgentAddRecentFile(filepath) ==
    sessionOp("AddRecentFile", filepath, AddRecentFile(sc, filepath, clock))

\* a new path, or at the cost of one of the other operations an earlier one
FocusFile ==
    \E k \in 1..(used.focus + 1) :
        /\ k <= MaxFocusPaths
        /\ k <= used.focus => used.other < MaxOther
        /\ AgentAddFocusedFile(path(k))
        /\ used' = IF k <= used.focus
                   THEN [used EXCEPT !.other = @ + 1]
                   ELSE [used EXCEPT !.focus = @ + 1]

\* a path that was added before, or one that never was
UnfocusFile ==
    \E k \in 1..(used.focus + 1) :
        /\ used.other < MaxOther
        /\ AgentRemoveFocusedFile(path(k))
        /\ used' = [used EXCEPT !.other = @ + 1]

ClearFocus ==
    /\ used.other < MaxOther
    /\ AgentClearFocusedFiles
    /\ used' = [used EXCEPT !.other = @ + 1]

NextFocus ==
    \/ FocusFile
    \/ UnfocusFile
    \/ ClearFocus

SpecFocus == Init /\ [][NextFocus]_vars

(***************************************************************************)
(* Sessions about the recent files, with a few operations on the focused   *)
(* files in between.                                                       *)
(***************************************************************************)
RecentFile ==
    \E k \in 1..(used.recent + 1) :
        /\ k <= MaxRecentPaths
        /\ k <= used.recent => used.other < MaxOtherRecent
        /\ AgentAddRecentFile(path(k))
        /\ used' = IF k <= used.recent
                   THEN [used EXCEPT !.other = @ + 1]
                   ELSE [used EXCEPT !.recent = @ + 1]

FocusFileBetween ==
    /\ used.focus < MaxFocusBetween
    /\ AgentAddFocusedFile(path(used.focus + 1))
    /\ used' = [used EXCEPT !.focus = @ + 1]

UnfocusFileBetween ==
    /\ used.other < MaxOtherRecent
    /\ AgentRemoveFocusedFile(path(1))
    /\ used' = [used EXCEPT !.other = @ + 1]

ClearFocusBetween ==
    /\ used.other < MaxOtherRecent
    /\ AgentClearFocusedFiles
    /\ used' = [used EXCEPT !.other = @ + 1]

NextRecent ==
    \/ RecentFile
    \/ FocusFileBetween
    \/ UnfocusFileBetween
    \/ ClearFocusBetween

SpecRecent == Init /\ [][NextRecent]_vars

(***************************************************************************)
(* Sessions about the tasks: the agent's SetCurrentTask and                *)
(* CompleteCurrentTask, and the subcommand "task complete" of /context.    *)
(***************************************************************************)
Tasks == { "write tests", "tidy parser" }

FilesChangedInputs == { << >>, << "f1.go" >> }

AgentSetCurrentTask(task) ==
    sessionOp("SetCurrentTask", task, SetCurrentTask(sc, task, clock))

AgentCompleteCurrentTask(filesChanged) ==
    sessionOp("CompleteCurrentTask", filesChanged,
              CompleteCurrentTask(sc, filesChanged, clock))

\* ContextCommand.Execute with the arguments task complete
ContextTaskComplete ==
    /\ IF sc.CurrentTask = ""
       THEN /\ result' = "No current task to complete"
            /\ sc' = sc
       ELSE /\ result' = "Completed task: " \o sc.CurrentTask
            /\ sc' = CompleteCurrentTask(sc, << >>, clock)
    /\ lastOp' = "task complete"
    /\ UNCHANGED << disk, fs >>
    /\ arg' = << >>
    /\ entry' = sc
    /\ clock' = clock + 1
    /\ UNCHANGED << windowVars, registryVars, uiVars >>

SetTask ==
    \E task \in Tasks \cup { "" } :
        /\ used.other < MaxTaskOps
        /\ AgentSetCurrentTask(task)
        /\ used' = [used EXCEPT !.other = @ + 1]

CompleteTask ==
    \E filesChanged \in FilesChangedInputs :
        /\ used.other < MaxTaskOps
        /\ AgentCompleteCurrentTask(filesChanged)
        /\ used' = [used EXCEPT !.other = @ + 1]

CompleteTaskCommand ==
    /\ used.other < MaxTaskOps
    /\ ContextTaskComplete
    /\ used' = [used EXCEPT !.other = @ + 1]

NextTask ==
    \/ SetTask
    \/ CompleteTask
    \/ CompleteTaskCommand

SpecTask == Init /\ [][NextTask]_vars

(***************************************************************************)
(* Sessions that fill the state and then save and load it.  The paths and  *)
(* the task descriptions are the text the user typed, which need not be    *)
(* valid UTF-8.                                                            *)
(***************************************************************************)
PersistPaths == { "f1.go", "f#.go" }

PersistTasks == { "write tests", "tidy #" }

SessionSaveToFile(outcome) ==
    LET saved == SaveToFile(sc, disk, outcome)
    IN /\ disk' = saved.file
       /\ result' = [err |-> saved.err]
       /\ lastOp' = "SaveToFile"
       /\ arg' = outcome
       /\ entry' = sc
       /\ clock' = clock + 1
       /\ UNCHANGED << sc, fs, windowVars, registryVars, uiVars >>

SessionLoadFromFile ==
    /\ result' = LoadFromFile(disk)
    /\ lastOp' = "LoadFromFile"
    /\ arg' = ""
    /\ clock' = clock + 1
    /\ UNCHANGED << sc, entry, disk, fs, windowVars, registryVars, uiVars >>

persistStep ==
    /\ used.other < MaxPersistOps
    /\ used' = [used EXCEPT !.other = @ + 1]

FillSession ==
    /\ persistStep
    /\ \/ \E filepath \in PersistPaths : AgentAddFocusedFile(filepath)
       \/ \E filepath \in PersistPaths : AgentAddRecentFile(filepath)
       \/ \E task \in PersistTasks : AgentSetCurrentTask(task)
       \/ AgentCompleteCurrentTask(<< "f1.go" >>)

SaveSession ==
    /\ persistStep
    /\ \E outcome \in WriteOutcomes : SessionSaveToFile(outcome)

LoadSession ==
    /\ persistStep
    /\ SessionLoadFromFile

NextPersist ==
    \/ FillSession
    \/ SaveSession
    \/ LoadSession

SpecPersist == Init /\ [][NextPersist]_vars

(***************************************************************************)
(* Starts of the agent in the directories it may find itself in: any set   *)
(* of marker files in the working directory, a few in its parent, or a     *)
(* working directory that is gone; files come and go between starts.       *)
(***************************************************************************)
ParentFiles == { {}, { "go.mod" }, { ".git", "package.json" } }

Environments ==
    { [cwd |-> TRUE, work |-> work, parent |-> parent] :
        work \in SUBSET Markers, parent \in ParentFiles }
    \cup { [cwd |-> FALSE, work |-> {}, parent |-> parent] :
             parent \in ParentFiles }

InitDetect ==
    /\ cw = NewContextWindow(ModelContextLimit)
    /\ nextID = 0
    /\ lastOp = "NewAgent"
    /\ entry = cw
    /\ result = << >>
    /\ history = << >>
    /\ summarized = {}
    /\ specials = 0
    /\ clears = 0
    /\ fs \in Environments
    /\ sc = NewAgentSession(fs, 0)
    /\ clock = 1
    /\ arg = ""
    /\ used = [focus |-> 0, recent |-> 0, other |-> 0]
    /\ disk = MissingFile
    /\ InitRegistry
    /\ InitUI

\* runAgent: the process starts again and NewAgent builds its state
NewAgent ==
    /\ sc' = NewAgentSession(fs, clock)
    /\ cw' = NewContextWindow(ModelContextLimit)
    /\ nextID' = 0
    /\ history' = << >>
    /\ summarized' = {}
    /\ lastOp' = "NewAgent"
    /\ arg' = ""
    /\ entry' = sc
    /\ result' = << >>
    /\ clock' = clock + 1
    /\ UNCHANGED << specials, clears, disk, fs, registryVars, uiVars >>

\* a marker file is created or removed in the working directory
ChangeFiles(work) ==
    /\ fs.cwd
    /\ work # fs.work
    /\ fs' = [fs EXCEPT !.work = work]
    /\ lastOp' = "file system"
    /\ UNCHANGED << sc, clock, arg, disk, entry, result, windowVars,
                    registryVars, uiVars >>

detectStep ==
    /\ used.other < MaxDetectOps
    /\ used' = [used EXCEPT !.other = @ + 1]

StartAgain == detectStep /\ NewAgent

CreateFile ==
    /\ detectStep
    /\ \E file \in Markers \ fs.work : ChangeFiles(fs.work \cup { file })

RemoveFile ==
    /\ detectStep
    /\ \E file \in fs.work : ChangeFiles(fs.work \ { file })

NextDetect ==
    \/ StartAgain
    \/ CreateFile
    \/ RemoveFile

SpecDetect == InitDetect /\ [][NextDetect]_vars

(***************************************************************************)
(* Runs of the agent as runInteractiveMode drives it: turns of             *)
(* ProcessMessage whose first Chat call is answered, /focus commands, and  *)
(* the end of the process followed by a new start.                         *)
(***************************************************************************)
runStep ==
    /\ used.other < MaxRunOps
    /\ used' = [used EXCEPT !.other = @ + 1]

RunTurn ==
    /\ runStep
    /\ \E userMessage \in UserMessages, script \in [1..1 -> ChatOutcomes] :
           ProcessMessageTurn(userMessage, script)

RunFocus ==
    /\ runStep
    /\ \E filepath \in PersistPaths : AgentAddFocusedFile(filepath)

RunAgain == runStep /\ NewAgent

NextRun ==
    \/ RunTurn
    \/ RunFocus
    \/ RunAgain

SpecRun == Init /\ [][NextRun]_vars

(***************************************************************************)
(* Goroutines that call one CommandRegistry.  A call is made in steps: the *)
(* call with its arguments, the acquisition of the lock, the access to the *)
(* table, and the release of the lock with the return; Execute then runs   *)
(* the command it found outside the lock.  An access that overlaps a write *)
(* of another goroutine is a data race, and a racing lookup may find the   *)
(* command or not.                                                         *)
(***************************************************************************)
registryStep ==
    UNCHANGED << windowVars, sessionVars, uiVars, lastOp, entry, result >>

\* the goroutine t enters a call that needs the lock
enterCall(t, op, name, argument) ==
    /\ threads[t].pc = "idle"
    /\ calls < MaxCalls
    /\ calls' = calls + 1
    /\ threads' = [threads EXCEPT ![t] =
           [pc |-> "acquire", op |-> op, name |-> name, arg |-> argument,
            known |-> registered, out |-> {}, answered |-> FALSE,
            running |-> ""]]
    /\ mu' = IF lockOf(op) = "Lock"
             THEN [mu EXCEPT !.pending = @ \cup { t }]
             ELSE mu
    /\ UNCHANGED << commands, registered >>
    /\ registryStep

CallRegister(t) ==
    \E name \in CommandNames : enterCall(t, "Register", name, "")

CallGetCommand(t) ==
    \E name \in CommandNames : enterCall(t, "GetCommand", name, "")

CallListCommands(t) == enterCall(t, "ListCommands", "", "")

CallExecute(t) ==
    \E input \in ExecuteInputs :
        LET parsed == parseCommand(input)
        IN IF parsed.handled /\ parsed.err = ""
           THEN enterCall(t, "Execute", parsed.cmdName, parsed.arg)
           ELSE /\ threads[t].pc = "idle"
                /\ calls < MaxCalls
                /\ calls' = calls + 1
                /\ threads' = [threads EXCEPT ![t] = IdleThread]
                /\ UNCHANGED << commands, mu, registered >>
                /\ registryStep

\* r.mu.Lock() or r.mu.RLock() returns
Acquire(t) ==
    /\ threads[t].pc = "acquire"
    /\ IF lockOf(threads[t].op) = "Lock"
       THEN /\ canLock(mu)
            /\ mu' = [mu EXCEPT !.writer = t, !.pending = @ \ { t }]
       ELSE /\ canRLock(mu)
            /\ mu' = [mu EXCEPT !.readers = @ \cup { t }]
    /\ threads' = [threads EXCEPT ![t].pc = "access"]
    /\ UNCHANGED << commands, registered, calls >>
    /\ registryStep

\* another goroutine is writing the table while t is in it
racing(t) ==
    \E u \in Threads \ { t } :
        threads[u].pc = "access" /\ threads[u].op = "Register"

\* the statement of the call that reads or writes r.commands
Access(t) ==
    /\ threads[t].pc = "access"
    /\ LET call == threads[t]
       IN IF call.op = "Register"
          THEN /\ commands' = mapStore(commands, call.name,
                                       [name |-> call.name])
               /\ threads' = [threads EXCEPT ![t].pc = "release"]
          ELSE /\ commands' = commands
               /\ \E out \in
                      IF call.op = "ListCommands"
                      THEN { mapValues(commands) }
                      ELSE IF racing(t)
                      THEN { {}, mapLookup(commands, call.name) }
                      ELSE { mapLookup(commands, call.name) } :
                    threads' = [threads EXCEPT ![t].pc = "release",
                                               ![t].out = out,
                                               ![t].answered = TRUE]
    /\ UNCHANGED << mu, registered, calls >>
    /\ registryStep

\* where the goroutine t goes on after the lookup or the write: Execute
\* runs the command it found; a call made by a running command returns to
\* the command; every other call returns to its caller
afterAccess(call) ==
    IF call.op = "Execute" /\ call.out # {} THEN "run"
    ELSE IF call.running # "" THEN "finish"
    ELSE "idle"

\* r.mu.Unlock() or r.mu.RUnlock(), and the return of all calls but an
\* Execute that found its command
Release(t) ==
    /\ threads[t].pc = "release"
    /\ mu' = IF unlockOf(threads[t].op) = "now"
                \/ afterAccess(threads[t]) # "run"
             THEN unlock(mu, t)
             ELSE mu
    /\ threads' = [threads EXCEPT ![t] =
           IF afterAccess(@) = "idle" THEN IdleThread
           ELSE [@ EXCEPT !.pc = afterAccess(threads[t]),
                          !.running = IF afterAccess(threads[t]) = "run"
                                      THEN threads[t].name ELSE @]]
    /\ registered' = IF threads[t].op = "Register"
                     THEN registered \cup { threads[t].name }
                     ELSE registered
    /\ UNCHANGED << commands, calls >>
    /\ registryStep

\* the return of Execute after its command has run, which runs the
\* unlocks that Execute has deferred
returnExecute(t) ==
    /\ threads' = [threads EXCEPT ![t] = IdleThread]
    /\ mu' = IF ExecuteUnlock = "defer" THEN unlock(mu, t) ELSE mu

\* cmd.Execute(args, ctx), with no lock of the registry held: the help
\* command calls GetCommand(args[0]), or ListCommands when it has no
\* argument; the other commands do not use the registry
RunCommand(t) ==
    /\ threads[t].pc = "run"
    /\ IF threads[t].running = "help"
       THEN /\ threads' = [threads EXCEPT
                   ![t].pc = "acquire",
                   ![t].op = IF threads[t].arg # ""
                             THEN "GetCommand" ELSE "ListCommands",
                   ![t].name = threads[t].arg,
                   ![t].known = registered,
                   ![t].out = {},
                   ![t].answered = FALSE]
            /\ mu' = mu
       ELSE returnExecute(t)
    /\ UNCHANGED << commands, registered, calls >>
    /\ registryStep

\* the help command formats what it has looked up and returns
FinishCommand(t) ==
    /\ threads[t].pc = "finish"
    /\ returnExecute(t)
    /\ UNCHANGED << commands, registered, calls >>
    /\ registryStep

NextRegistry ==
    \E t \in Threads :
        \/ CallRegister(t)
        \/ CallGetCommand(t)
        \/ CallListCommands(t)
        \/ CallExecute(t)
        \/ Acquire(t)
        \/ Access(t)
        \/ Release(t)
        \/ RunCommand(t)
        \/ FinishCommand(t)

SpecRegistry == Init /\ [][NextRegistry]_vars

\* what the goroutine t does once it has entered a call
threadStep(t) ==
    \/ Acquire(t)
    \/ Access(t)
    \/ Release(t)
    \/ RunCommand(t)
    \/ FinishCommand(t)

\* the scheduler lets every goroutine that can go on do so
SpecRegistryFair ==
    SpecRegistry /\ \A t \in Threads : WF_vars(threadStep(t))

(***************************************************************************)
(* The read loop of runInteractiveMode with the default registry: one line *)
(* is read and handled, or the input ends.  A line that is no command goes *)
(* to handleMessage, which makes a turn of ProcessMessage.                 *)
(***************************************************************************)
ReadLine ==
    /\ repl.state = "reading"
    /\ repl.lines < MaxLines
    /\ \E line \in InteractiveInputs :
         LET handled == readLoop(NewDefaultRegistry, line)
         IN /\ repl' = [state |-> handled.state,
                        lines |-> repl.lines + 1,
                        input |-> handled.input,
                        output |-> handled.output,
                        sent |-> handled.sent]
            /\ IF handled.sent
               THEN \E script \in [1..1 -> ChatOutcomes] :
                        processTurn(handled.input, script)
               ELSE /\ lastOp' = "ReadLine"
                    /\ UNCHANGED << entry, result, windowVars >>
    /\ UNCHANGED << sessionVars, registryVars, li, goroutines >>

\* scanner.Scan() returns false
EndOfInput ==
    /\ repl.state = "reading"
    /\ repl' = [repl EXCEPT !.state = "stopped", !.sent = FALSE,
                            !.input = "", !.output = ""]
    /\ lastOp' = "EndOfInput"
    /\ UNCHANGED << entry, result, windowVars, sessionVars, registryVars,
                    li, goroutines >>

NextInteractive ==
    \/ ReadLine
    \/ EndOfInput

SpecInteractive == Init /\ [][NextInteractive]_vars

(***************************************************************************)
(* LoadingIndicator.  Goroutines call Start and Stop of one indicator; a   *)
(* call is a sequence of steps between which the other goroutines run.     *)
(* li.closes counts the close(l.stopChan) statements executed: the channel *)
(* is made once, in NewLoadingIndicator, and closing a closed channel      *)
(* panics, which ends the process.  li.animators counts the animate        *)
(* goroutines that have been started and have not returned.  The ticker    *)
(* case of animate's select changes nothing of this state.                 *)
(***************************************************************************)
indicatorStep ==
    UNCHANGED << windowVars, sessionVars, registryVars, repl,
                 lastOp, entry, result >>

returnCaller(g) ==
    goroutines' = [goroutines EXCEPT ![g].pc = "idle", ![g].op = ""]

\* a goroutine calls Start or Stop
CallIndicator(g, op) ==
    /\ ~li.panicked
    /\ goroutines[g].pc = "idle"
    /\ goroutines[g].done < MaxIndicatorCalls
    /\ goroutines' = [goroutines EXCEPT ![g].pc = "lock", ![g].op = op,
                                        ![g].done = @ + 1]
    /\ UNCHANGED li
    /\ indicatorStep

CallStart == \E g \in Callers : CallIndicator(g, "Start")

CallStop == \E g \in Callers : CallIndicator(g, "Stop")

\* l.mu.Lock()
IndicatorLock ==
    \E g \in Callers :
        /\ ~li.panicked
        /\ goroutines[g].pc = "lock"
        /\ li.mu = 0
        /\ li' = [li EXCEPT !.mu = g]
        /\ goroutines' = [goroutines EXCEPT ![g].pc = "locked"]
        /\ indicatorStep

\* Start under the lock: return when running, else set isRunning
StartLocked ==
    \E g \in Callers :
        /\ ~li.panicked
        /\ goroutines[g].pc = "locked"
        /\ goroutines[g].op = "Start"
        /\ IF li.isRunning
           THEN /\ li' = [li EXCEPT !.mu = 0]
                /\ returnCaller(g)
           ELSE /\ li' = [li EXCEPT !.isRunning = TRUE, !.mu = 0]
                /\ goroutines' = [goroutines EXCEPT ![g].pc = "add"]
        /\ indicatorStep

\* l.wg.Add(1)
StartAdd ==
    \E g \in Callers :
        /\ ~li.panicked
        /\ goroutines[g].pc = "add"
        /\ li' = [li EXCEPT !.wg = @ + 1]
        /\ goroutines' = [goroutines EXCEPT ![g].pc = "go"]
        /\ indicatorStep

\* go l.animate()
StartGo ==
    \E g \in Callers :
        /\ ~li.panicked
        /\ goroutines[g].pc = "go"
        /\ li' = [li EXCEPT !.animators = @ + 1]
        /\ returnCaller(g)
        /\ indicatorStep

\* Stop under the lock: return when not running, else clear isRunning
StopLocked ==
    \E g \in Callers :
        /\ ~li.panicked
        /\ goroutines[g].pc = "locked"
        /\ goroutines[g].op = "Stop"
        /\ IF ~li.isRunning
           THEN /\ li' = [li EXCEPT !.mu = 0]
                /\ returnCaller(g)
           ELSE /\ li' = [li EXCEPT !.isRunning = FALSE, !.mu = 0]
                /\ goroutines' = [goroutines EXCEPT ![g].pc = "close"]
        /\ indicatorStep

\* close(l.stopChan)
StopClose ==
    \E g \in Callers :
        /\ ~li.panicked
        /\ goroutines[g].pc = "close"
        /\ li' = [li EXCEPT !.closes = @ + 1, !.panicked = li.closes > 0]
        /\ goroutines' = [goroutines EXCEPT ![g].pc =
                              IF li.closes > 0 THEN "panic" ELSE "wait"]
        /\ indicatorStep

\* l.wg.Wait() returns when the counter is zero
StopWait ==
    \E g \in Callers :
        /\ ~li.panicked
        /\ goroutines[g].pc = "wait"
        /\ li.wg = 0
        /\ UNCHANGED li
        /\ returnCaller(g)
        /\ indicatorStep

\* animate receives from the closed stopChan and returns; defer l.wg.Done()
AnimateReturn ==
    /\ ~li.panicked
    /\ li.animators > 0
    /\ li.closes > 0
    /\ li' = [li EXCEPT !.animators = @ - 1, !.wg = @ - 1]
    /\ UNCHANGED goroutines
    /\ indicatorStep

NextIndicator ==
    \/ CallStart
    \/ CallStop
    \/ IndicatorLock
    \/ StartLocked
    \/ StartAdd
    \/ StartGo
    \/ StopLocked
    \/ StopClose
    \/ StopWait
    \/ AnimateReturn

SpecIndicator == Init /\ [][NextIndicator]_vars

(***************************************************************************)
(* Vocabulary of the properties.                                           *)
(***************************************************************************)
\* the budget of trimIfNeeded, from the three fields
budgetOf(w) == w.MaxTokens - w.ReservedTokens - w.SummaryTokens

\* tokens of the messages plus the estimate of the summary
usageOf(w) ==
    sumTokens(Msgs(w)) + Len(w.ConversationSummary) \div 4

\* how often the message with this id occurs in a sequence of messages
occurrences(messages, id) ==
    Cardinality({ i \in 1..Len(messages) : messages[i].MessageID = id })

\* the 1-based positions of a message sequence that trimming must keep
pinnedPositions(messages) ==
    { i \in 1..Len(messages) :
        messages[i].Important \/ i > Len(messages) - 10 }

\* the part of the summary written by the last operation
writtenSummary(before, after) ==
    SubSeq(after.ConversationSummary,
           Len(before.ConversationSummary) + 1,
           Len(after.ConversationSummary))

trimmedLast == lastOp \in { "AddMessage", "trimIfNeeded" }

(***************************************************************************)
(* C1.  After an AddMessage call that leaves more than 10 messages in the  *)
(* window, the token sum of the sequence returned by GetContextualMessages *)
(* is at most MaxTokens - ReservedTokens - SummaryTokens, unless one       *)
(* message of that sequence alone exceeds this budget.                     *)
(***************************************************************************)
C1_TokenBudget ==
    LET returned == GetContextualMessages(cw)
    IN (/\ lastOp = "AddMessage"
        /\ Len(Msgs(cw)) > 10
        /\ \A i \in 1..Len(returned) : returned[i].Tokens <= budgetOf(cw))
       => sumTokens(returned) <= budgetOf(cw)

(***************************************************************************)
(* C2.  In a session built with Agent.AddMessage, a message whose role is  *)
(* system or whose lower-cased content contains an importance keyword is   *)
(* never put into the summarize partition and is still in Messages after   *)
(* every later call.                                                       *)
(***************************************************************************)
C2_ImportancePinning ==
    \A k \in 1..Len(history) :
        importanceTable[<< history[k].Role, history[k].Content >>]
        => /\ history[k].MessageID \notin summarized
           /\ \E i \in 1..Len(Msgs(cw)) : Msgs(cw)[i] = history[k]

\* a trimming step has summarized messages while a message that is
\* important by a keyword was older than the 10 most recent ones
C2_Witness ==
    /\ lastOp = "AddMessage"
    /\ summarized # {}
    /\ \E k \in 1..(Len(history) - 10) :
           /\ history[k].Role # "system"
           /\ history[k].Important
           /\ \E i \in 1..Len(Msgs(cw)) : Msgs(cw)[i] = history[k]

(***************************************************************************)
(* C3.  Immediately after the trimming step of every AddMessage, the 10    *)
(* most recently added messages (all of them when fewer than 10 were       *)
(* added) are present in Messages.                                         *)
(***************************************************************************)
C3_RecencyFloor ==
    lastOp = "AddMessage"
    => \A k \in 1..Len(history) :
           k > Len(history) - 10
           => \E i \in 1..Len(Msgs(cw)) : Msgs(cw)[i] = history[k]

(***************************************************************************)
(* C4.  A second trimIfNeeded with no AddMessage in between leaves         *)
(* Messages and the summary text as the first one left them.               *)
(***************************************************************************)
C4_TrimIdempotent ==
    lastOp = "trimIfNeeded"
    => /\ Msgs(cw) = Msgs(entry)
       /\ cw.ConversationSummary = entry.ConversationSummary

\* the second run found the window still over budget, after a first run
\* that had summarized messages
C4_Witness ==
    /\ lastOp = "trimIfNeeded"
    /\ usageOf(entry) > budgetOf(entry)
    /\ entry.ConversationSummary # ""
    /\ Len(Msgs(cw)) >= 10

(***************************************************************************)
(* C5.  When trimIfNeeded finds the usage above the budget, Messages       *)
(* afterwards is exactly the subsequence of the previous Messages that     *)
(* are important or in the last 10 positions, in their order, and every    *)
(* other message has its line in the summary text written by this step.    *)
(***************************************************************************)
C5_TrimPartition ==
    (trimmedLast /\ usageOf(entry) > budgetOf(entry))
    => LET old == Msgs(entry)
           new == Msgs(cw)
           pinned == pinnedPositions(old)
           written == writtenSummary(entry, cw)
       IN /\ Len(new) = Cardinality(pinned)
          /\ \A i \in pinned :
                 new[Cardinality({ j \in pinned : j <= i })] = old[i]
          /\ \A i \in (1..Len(old)) \ pinned :
                 /\ Contains(written,
                        "- " \o old[i].Role \o ": "
                             \o truncateContent(old[i].Content, 100) \o "\n")
                 /\ occurrences(new, old[i].MessageID) = 0

\* a trimming step that kept an old important message, dropped another
\* message and kept the 10 recent ones
C5_Witness ==
    /\ lastOp = "AddMessage"
    /\ usageOf(entry) > budgetOf(entry)
    /\ Len(Msgs(cw)) > 10
    /\ Len(Msgs(cw)) < Len(Msgs(entry))

(***************************************************************************)
(* C6.  When the usage is within the budget, trimIfNeeded changes          *)
(* nothing: Messages, ImportantMessages and the summary are as they were.  *)
(***************************************************************************)
C6_NoTrimWithinBudget ==
    (trimmedLast /\ usageOf(entry) <= budgetOf(entry))
    => /\ Msgs(cw) = Msgs(entry)
       /\ Imps(cw) = Imps(entry)
       /\ cw.ConversationSummary = entry.ConversationSummary

\* the window holds non-important messages older than the 10 most recent
\* ones and its usage is exactly the budget
C6_Witness ==
    /\ lastOp = "AddMessage"
    /\ usageOf(entry) = budgetOf(entry)
    /\ Len(Msgs(cw)) > 10
    /\ ~Msgs(cw)[1].Important

(***************************************************************************)
(* C7.  With no ClearConversation, the summary text before a step is a     *)
(* prefix of the summary text after it, and a new section follows earlier  *)
(* summary text after a blank line.                                        *)
(***************************************************************************)
C7_SummaryAccumulates ==
    [][ /\ HasPrefix(cw'.ConversationSummary, cw.ConversationSummary)
        /\ (/\ cw'.ConversationSummary # cw.ConversationSummary
            /\ cw.ConversationSummary # "")
           => HasPrefix(cw'.ConversationSummary,
                        cw.ConversationSummary
                            \o "\n\n=== Conversation Summary (") ]_vars

\* the summary holds two sections
C7_Witness ==
    /\ lastOp = "AddMessage"
    /\ Contains(cw.ConversationSummary, "\n\n=== Conversation Summary (")

(***************************************************************************)
(* C8.  ClearConversation leaves Messages equal to ImportantMessages,      *)
(* element for element, empties the summary and leaves ImportantMessages   *)
(* unchanged.                                                              *)
(***************************************************************************)
C8_ClearConversation ==
    lastOp = "ClearConversation"
    => /\ Len(Msgs(cw)) = Len(Imps(cw))
       /\ \A i \in 1..Len(Imps(cw)) : Msgs(cw)[i] = Imps(cw)[i]
       /\ cw.ConversationSummary = ""
       /\ Imps(cw) = Imps(entry)

\* a clear of a window that held a summary, important messages and
\* messages that are not important
C8_Witness ==
    /\ lastOp = "ClearConversation"
    /\ entry.ConversationSummary # ""
    /\ Len(Imps(cw)) > 0
    /\ Len(Msgs(entry)) > Len(Imps(entry))

(***************************************************************************)
(* C9.  After ClearConversation, every message added since the clear is    *)
(* in Messages exactly once, unless a trimming step has removed it: an     *)
(* append to ImportantMessages never overwrites an element of Messages.    *)
(***************************************************************************)
C9_ClearCopies ==
    clears > 0
    => \A k \in 1..Len(history) :
           history[k].MessageID \notin summarized
           => occurrences(Msgs(cw), history[k].MessageID) = 1

(***************************************************************************)
(* C10.  GetContextualMessages returns one synthetic system message with   *)
(* the whole summary followed by the messages in stored order when the     *)
(* summary is not empty, the messages alone when it is empty, and does not *)
(* change the window.                                                      *)
(***************************************************************************)
C10_GetContextualMessages ==
    [][ lastOp' = "GetContextualMessages"
        => /\ cw' = cw
           /\ IF cw.ConversationSummary # ""
              THEN /\ Len(result') = Len(Msgs(cw)) + 1
                   /\ result'[1].Role = "system"
                   /\ result'[1].Content = cw.ConversationSummary
                   /\ \A i \in 1..Len(Msgs(cw)) : result'[i + 1] = Msgs(cw)[i]
              ELSE result' = Msgs(cw) ]_vars

\* the call registered a summary message in front of the messages
C10_Witness ==
    /\ lastOp = "GetContextualMessages"
    /\ cw.ConversationSummary # ""
    /\ Len(result) = Len(Msgs(cw)) + 1
    /\ Len(Msgs(cw)) > 0

(***************************************************************************)
(* C11.  When MaxTokens - ReservedTokens is zero or negative,              *)
(* GetUsagePercentage returns exactly 100 whatever the messages and the    *)
(* summary are; and no call divides by zero or returns a negative value.   *)
(***************************************************************************)
C11_UsageClamped ==
    lastOp = "GetUsagePercentage" =>
        /\ cw.MaxTokens - cw.ReservedTokens <= 0 => result = Hundred
        /\ result.den > 0
        /\ result.num >= 0

\* the percentage of a window of 1000 tokens with 1000 reserved that holds
\* messages and a summary
C11_Witness ==
    /\ lastOp = "GetUsagePercentage"
    /\ cw.MaxTokens = 1000
    /\ cw.ReservedTokens = 1000
    /\ Len(Msgs(cw)) > 0
    /\ cw.ConversationSummary # ""
    /\ result = Hundred

(***************************************************************************)
(* C12.  In the scenario, from the 13th addition on Messages holds the     *)
(* system message and the 10 most recent other messages, every older       *)
(* message is folded into the summary, and the summary is not empty and    *)
(* has a "Tasks/Implementation" or an "Other Discussion" header.           *)
(***************************************************************************)
lastTen(messages) ==
    SubSeq(messages, Len(messages) - 9, Len(messages))

C12_ScenarioTrims ==
    (lastOp = "AddMessage" /\ nextID >= 13) =>
        /\ Msgs(cw) = << history[1] >> \o lastTen(history)
        /\ cw.ConversationSummary # ""
        /\ \/ Contains(cw.ConversationSummary, "Tasks/Implementation")
           \/ Contains(cw.ConversationSummary, "Other Discussion")

\* C12 as amended: in the scenario the usage never exceeds the budget of
\* 1700 tokens, so after every addition Messages holds every message added
\* so far, in order, and the summary is empty.
C12_ScenarioWithinBudget ==
    /\ usageOf(cw) <= budgetOf(cw)
    /\ Msgs(cw) = history
    /\ cw.ConversationSummary = ""

\* the system message and all the pairs have been added
C12_Witness ==
    /\ lastOp = "AddMessage"
    /\ nextID = 1 + 2 * MaxPairs
    /\ nextID >= 13
    /\ budgetOf(cw) = 1700
    /\ Len(Msgs(cw)) = nextID

(***************************************************************************)
(* C13.  When the Chat call of ProcessMessage fails, with an error or with *)
(* a response without choices, ProcessMessage returns an error and the     *)
(* window is exactly as it was before the call: no system or user message  *)
(* of the failed turn remains in it.                                       *)
(***************************************************************************)
C13_FailedTurnLeavesWindow ==
    (lastOp = "ProcessMessage" /\ result.err # "") =>
        /\ cw = entry
        /\ Msgs(cw) = Msgs(entry)

(***************************************************************************)
(* C14.  After any sequence of AddFocusedFile, RemoveFocusedFile and       *)
(* ClearFocusedFiles from a fresh session, FocusedFiles has no duplicates, *)
(* has at most 10 entries and is ordered most recently added first:        *)
(* adding MaxFocusPaths (15) distinct paths leaves the last 10 added, and  *)
(* adding a path that is already there moves it to the front without       *)
(* changing the length.                                                    *)
(***************************************************************************)
noDuplicates(list) ==
    \A i, j \in 1..Len(list) : list[i] = list[j] => i = j

elements(list) == { list[i] : i \in 1..Len(list) }

\* list without its entries equal to x, in order
RECURSIVE without(_, _)
without(list, x) ==
    IF Len(list) = 0 THEN list
    ELSE (IF Head(list) = x THEN << >> ELSE << Head(list) >>)
         \o without(Tail(list), x)

isPrefix(short, long) ==
    /\ Len(short) <= Len(long)
    /\ SubSeq(long, 1, Len(short)) = short

\* path(n), path(n - 1), ..., the last count paths first used
lastPaths(n, count) == [i \in 1..count |-> path(n + 1 - i)]

C14_FocusedFiles ==
    /\ noDuplicates(sc.FocusedFiles)
    /\ Len(sc.FocusedFiles) <= 10
    /\ lastOp = "AddFocusedFile" =>
          /\ Head(sc.FocusedFiles) = arg
          /\ isPrefix(Tail(sc.FocusedFiles), without(entry.FocusedFiles, arg))
          /\ Len(sc.FocusedFiles) >= Len(entry.FocusedFiles)
          /\ arg \in elements(entry.FocusedFiles) =>
                 Len(sc.FocusedFiles) = Len(entry.FocusedFiles)
    /\ lastOp = "RemoveFocusedFile" =>
          sc.FocusedFiles = without(entry.FocusedFiles, arg)
    /\ lastOp = "ClearFocusedFiles" => sc.FocusedFiles = << >>
    /\ (used.focus = MaxFocusPaths /\ used.other = 0) =>
          sc.FocusedFiles = lastPaths(MaxFocusPaths, 10)

\* a full list into which a path that is in it but not first is added again
C14_Witness ==
    /\ lastOp = "AddFocusedFile"
    /\ Len(entry.FocusedFiles) = 10
    /\ used.focus >= 15
    /\ arg \in elements(Tail(entry.FocusedFiles))
    /\ Head(sc.FocusedFiles) = arg
    /\ Len(sc.FocusedFiles) = 10

(***************************************************************************)
(* C15.  AddRecentFile keeps RecentFiles without duplicates, most recent   *)
(* first and at most 20 long, and the two lists are independent:           *)
(* AddRecentFile never changes FocusedFiles and the operations on the      *)
(* focused files never change RecentFiles.                                 *)
(***************************************************************************)
focusOps == { "AddFocusedFile", "RemoveFocusedFile", "ClearFocusedFiles" }

C15_RecentFiles ==
    /\ noDuplicates(sc.RecentFiles)
    /\ Len(sc.RecentFiles) <= 20
    /\ lastOp = "AddRecentFile" =>
          /\ Head(sc.RecentFiles) = arg
          /\ isPrefix(Tail(sc.RecentFiles), without(entry.RecentFiles, arg))
          /\ Len(sc.RecentFiles) >= Len(entry.RecentFiles)
          /\ arg \in elements(entry.RecentFiles) =>
                 Len(sc.RecentFiles) = Len(entry.RecentFiles)
          /\ sc.FocusedFiles = entry.FocusedFiles
    /\ lastOp \in focusOps => sc.RecentFiles = entry.RecentFiles
    /\ (used.recent = MaxRecentPaths /\ used.other = 0) =>
          sc.RecentFiles = lastPaths(MaxRecentPaths, 20)

\* a path of the full recent list is added again while a file is focused
C15_Witness ==
    /\ lastOp = "AddRecentFile"
    /\ Len(entry.RecentFiles) = 20
    /\ used.recent >= 21
    /\ arg \in elements(Tail(entry.RecentFiles))
    /\ Len(sc.RecentFiles) = 20
    /\ Len(sc.FocusedFiles) > 0
    /\ sc.FocusedFiles # sc.RecentFiles

(***************************************************************************)
(* C16.  CompleteCurrentTask with an empty current task changes nothing;   *)
(* otherwise it appends exactly one record, with the description of the    *)
(* current task and the files changed, at the end of TaskHistory and sets  *)
(* the current task to empty; so two calls in a row add at most one        *)
(* record.  The same holds through "/context task complete".               *)
(***************************************************************************)
completeOps == { "CompleteCurrentTask", "task complete" }

completedRecord(before, after) == after.TaskHistory[Len(after.TaskHistory)]

C16_CompleteStep ==
    /\ lastOp' \in completeOps =>
          IF sc.CurrentTask = ""
          THEN sc' = sc
          ELSE /\ Len(sc'.TaskHistory) = Len(sc.TaskHistory) + 1
               /\ SubSeq(sc'.TaskHistory, 1, Len(sc.TaskHistory))
                      = sc.TaskHistory
               /\ completedRecord(sc, sc').Description = sc.CurrentTask
               /\ completedRecord(sc, sc').FilesChanged = arg'
               /\ sc'.CurrentTask = ""
    /\ (lastOp \in completeOps /\ lastOp' \in completeOps) =>
          Len(sc'.TaskHistory) <= Len(entry.TaskHistory) + 1

C16_CompleteCurrentTask == [][C16_CompleteStep]_vars

\* the second of two calls in a row, the first of which completed a task
C16_Witness ==
    /\ lastOp = "CompleteCurrentTask"
    /\ entry.CurrentTask = ""
    /\ Len(entry.TaskHistory) = 2
    /\ entry.TaskHistory[2].CompletedAt.instant = clock - 2
    /\ entry.TaskHistory[2].FilesChanged = << "f1.go" >>
    /\ sc = entry

(***************************************************************************)
(* C17.  Round trip: LoadFromFile right after a SaveToFile that succeeded  *)
(* gives a SessionContext equal to the saved one in the focused files, the *)
(* recent files, the current task and the task history, whatever they hold *)
(* (two times are equal when they are the same instant).                   *)
(***************************************************************************)
sameTasks(loaded, saved) ==
    /\ Len(loaded) = Len(saved)
    /\ \A i \in 1..Len(saved) :
          /\ loaded[i].Description = saved[i].Description
          /\ loaded[i].CompletedAt.instant = saved[i].CompletedAt.instant
          /\ loaded[i].FilesChanged = saved[i].FilesChanged

C17_RoundTrip ==
    (/\ lastOp = "LoadFromFile"
     /\ result.err = ""
     /\ disk = WrittenFile(MarshalIndent(sc))) =>
        /\ result.sc.FocusedFiles = sc.FocusedFiles
        /\ result.sc.RecentFiles = sc.RecentFiles
        /\ result.sc.CurrentTask = sc.CurrentTask
        /\ sameTasks(result.sc.TaskHistory, sc.TaskHistory)

(***************************************************************************)
(* C19.  DetectProjectType sets the project type by a fixed priority over  *)
(* the marker files present in the project root: go.mod, then              *)
(* package.json, then any of requirements.txt, pyproject.toml and          *)
(* setup.py, then Cargo.toml; and it sets "unknown" whenever none of them  *)
(* is present.                                                             *)
(***************************************************************************)
detectedFrom(present, projectType) ==
    /\ "go.mod" \in present => projectType = "go"
    /\ ("package.json" \in present /\ "go.mod" \notin present) =>
          projectType = "nodejs"
    /\ (/\ present \cap { "requirements.txt", "pyproject.toml",
                          "setup.py" } # {}
        /\ present \cap { "go.mod", "package.json" } = {}) =>
          projectType = "python"
    /\ (/\ "Cargo.toml" \in present
        /\ present \cap { "go.mod", "package.json", "requirements.txt",
                          "pyproject.toml", "setup.py" } = {}) =>
          projectType = "rust"
    /\ present \cap { "go.mod", "package.json", "requirements.txt",
                      "pyproject.toml", "setup.py", "Cargo.toml" } = {} =>
          projectType = "unknown"

C19_DetectProjectType ==
    lastOp = "NewAgent" =>
        detectedFrom(filesAt(fs, sc.ProjectRoot), sc.ProjectType)

\* C19 as amended: the same when the project root is not empty; with an
\* empty project root (no working directory) DetectProjectType returns at
\* once and the project type stays as it was, empty in a new session.
C19_DetectWithRoot ==
    lastOp = "NewAgent" =>
        IF sc.ProjectRoot = ""
        THEN sc.ProjectType = ""
        ELSE detectedFrom(filesAt(fs, sc.ProjectRoot), sc.ProjectType)

\* a root with Python and Rust markers and no marker of higher priority
C19_Witness ==
    /\ lastOp = "NewAgent"
    /\ sc.ProjectRoot = "/work"
    /\ fs.work = { ".git", "setup.py", "Cargo.toml" }
    /\ sc.ProjectType = "python"
    /\ used.other > 0

(***************************************************************************)
(* C18.  After every processed user turn the session file holds the        *)
(* SessionContext as saved, and a start of the agent that finds a session  *)
(* file it can read continues from the state in it (a start that cannot    *)
(* load begins with a fresh state).                                        *)
(***************************************************************************)
C18_SessionPersisted ==
    /\ (lastOp = "ProcessMessage" /\ result.err = "") =>
          disk = WrittenFile(MarshalIndent(sc))
    /\ (lastOp = "NewAgent" /\ LoadFromFile(disk).err = "") =>
          sc.FocusedFiles = LoadFromFile(disk).sc.FocusedFiles

(***************************************************************************)
(* C20.  Under every interleaving of Register, GetCommand, ListCommands    *)
(* and Execute on one registry, no read of the command table overlaps a    *)
(* write of it, and a lookup that starts after Register of a name has      *)
(* registered finds a command of that name.                                  *)
(***************************************************************************)
inTable(t) == threads[t].pc = "access"

\* the names that the call of t must find
mustFind(t) ==
    IF threads[t].op = "ListCommands" THEN threads[t].known
    ELSE threads[t].known \cap { threads[t].name }

C20_RegistryLocking ==
    /\ \A t, u \in Threads :
          (t # u /\ inTable(t) /\ threads[t].op = "Register") => ~inTable(u)
    /\ \A t \in Threads :
          threads[t].answered =>
              \A name \in mustFind(t) :
                  \E cmd \in threads[t].out : cmd.name = name

\* a lookup that began after Register("help") registered has found the
\* command while another goroutine is writing the table
C20_Witness ==
    \E t, u \in Threads :
        /\ t # u
        /\ threads[t].op \in { "GetCommand", "Execute" }
        /\ threads[t].answered
        /\ threads[t].name \in threads[t].known
        /\ threads[t].out # {}
        /\ threads[u].op = "Register"
        /\ inTable(u)

(***************************************************************************)
(* C21.  Execute holds no lock of the registry while the command it has    *)
(* looked up runs, and every Execute whose command calls GetCommand or     *)
(* ListCommands on the same registry returns, also while another           *)
(* goroutine is waiting in Register.                                       *)
(***************************************************************************)
holdsLock(t) == mu.writer = t \/ t \in mu.readers

C21_ExecuteReturns ==
    /\ [](\A t \in Threads :
             threads[t].pc = "run" => ~holdsLock(t))
    /\ \A t \in Threads :
          (threads[t].running # "") ~> (threads[t].pc = "idle")

\* the help command is about to look up a command while another goroutine
\* waits in Register for the lock
C21_Witness ==
    \E t, u \in Threads :
        /\ t # u
        /\ threads[t].running = "help"
        /\ threads[t].pc = "acquire"
        /\ threads[u].op = "Register"
        /\ threads[u].pc = "acquire"

(***************************************************************************)
(* C22.  In interactive mode the line /exit ends the session: the exit     *)
(* command of the default registry returns EXIT_APPLICATION and the read   *)
(* loop stops without handing the line to the model.                       *)
(***************************************************************************)
C22_ExitTerminates ==
    (repl.lines > 0 /\ repl.input = "/exit")
        => (repl.state = "stopped" /\ ~repl.sent)

(***************************************************************************)
(* C23.  After any sequence of AddMessage, MarkMessageImportant, trimming  *)
(* and ClearConversation steps, every entry of ImportantMessages is also   *)
(* an element of Messages, with the same id and content.                   *)
(***************************************************************************)
C23_ImportantInMessages ==
    \A i \in 1..Len(Imps(cw)) :
        \E j \in 1..Len(Msgs(cw)) :
            /\ Msgs(cw)[j].MessageID = Imps(cw)[i].MessageID
            /\ Msgs(cw)[j].Content = Imps(cw)[i].Content

(***************************************************************************)
(* C29.  MarkMessageImportant is idempotent: marking a message that is     *)
(* already important leaves ImportantMessages unchanged, so                *)
(* ImportantMessages never holds a message twice and ClearConversation     *)
(* never leaves a message twice in Messages.                               *)
(***************************************************************************)
messageIDs(messages) == [k \in 1..Len(messages) |-> messages[k].MessageID]

alreadyImportant(w, messageID) ==
    /\ firstWithID(Msgs(w), messageID) # 0
    /\ Msgs(w)[firstWithID(Msgs(w), messageID)].Important

C29_MarkIdempotent ==
    /\ (lastOp = "MarkMessageImportant"
        /\ alreadyImportant(entry, result.marked))
           => Imps(cw) = Imps(entry)
    /\ noDuplicates(messageIDs(Imps(cw)))
    /\ lastOp = "ClearConversation" => noDuplicates(messageIDs(Msgs(cw)))

(***************************************************************************)
(* C24.  A trimming step never increases the token usage of the window:    *)
(* whenever trimIfNeeded folds messages into the summary, the value of     *)
(* calculateCurrentTokens after the step is at most its value before.      *)
(***************************************************************************)
currentTokens(w) == calculateCurrentTokens(Msgs(w), w.ConversationSummary)

C24_TrimNeverGrows ==
    (/\ lastOp \in { "AddMessage", "trimIfNeeded" }
     /\ overBudget(entry)
     /\ Len(messagesToSummarize(Msgs(entry))) > 0)
        => currentTokens(cw) <= currentTokens(entry)

(***************************************************************************)
(* C25.  After any sequence of AddMessage calls the token estimate of the  *)
(* summary text is at most SummaryTokens, the tokens that the window       *)
(* reserves for the summary.                                               *)
(***************************************************************************)
C25_SummaryWithinBudget ==
    EstimateTokens(cw.ConversationSummary) <= cw.SummaryTokens

(***************************************************************************)
(* C26.  Whatever the model client answers, one ProcessMessage call makes  *)
(* at most 201 Chat calls: the first call and at most 200 follow-up        *)
(* iterations, also when every follow-up answer holds tool calls.          *)
(***************************************************************************)
C26_ChatCallsBounded ==
    lastOp = "ProcessMessage" => result.chats <= maxIterations + 1

(***************************************************************************)
(* C27.  After a ProcessMessage call whose first answer holds one tool     *)
(* call, the tool-results message that executeOpenRouterToolCalls adds     *)
(* after the assistant's reply holds exactly one entry for that call:      *)
(* one line that starts with the tool's name followed by " result: " or    *)
(* " error: ", also when the arguments of the call are not JSON and when   *)
(* the tool's name is unknown.                                             *)
(***************************************************************************)
toolResultsHeader == "Tool execution results:\n"

\* the joined tool results that a follow-up prompt carries
toolResultsIn(content) ==
    SubSeq(content, Len(toolResultsHeader) + 1,
           Len(content) - (Len(followUpPrompt("")) - Len(toolResultsHeader)))

\* the position in history of the user message of the last turn
turnUserMessage ==
    IF history[result.first].Role = "system"
    THEN result.first + 1 ELSE result.first

turnHadToolCall ==
    /\ lastOp = "ProcessMessage"
    /\ result.err = ""
    /\ result.answer.kind = "reply"
    /\ result.answer.toolCalls = 1

isEntryFor(toolResults, name) ==
    /\ \/ HasPrefix(toolResults, name \o " result: ")
       \/ HasPrefix(toolResults, name \o " error: ")
    /\ ~Contains(toolResults, "\n")

C27_OneEntryPerToolCall ==
    turnHadToolCall =>
        /\ Len(history) >= turnUserMessage + 2
        /\ history[turnUserMessage + 2].Role = "user"
        /\ HasPrefix(history[turnUserMessage + 2].Content, toolResultsHeader)
        /\ isEntryFor(toolResultsIn(history[turnUserMessage + 2].Content),
                      toolCallName(result.answer.tool))

\* the same for a call whose arguments parse: the cases that hold
C27_ParsedCallHasEntry ==
    (turnHadToolCall /\ result.answer.tool # "badargs") =>
        /\ Len(history) >= turnUserMessage + 2
        /\ isEntryFor(toolResultsIn(history[turnUserMessage + 2].Content),
                      toolCallName(result.answer.tool))

C27_UnknownToolSeen ==
    /\ turnHadToolCall
    /\ result.answer.tool = "unknown"
    /\ toolResultsIn(history[turnUserMessage + 2].Content)
           = "run_shell error: tool 'run_shell' not found"

(***************************************************************************)
(* C28.  Once ProcessMessage has been called, and after any later sequence *)
(* of ProcessMessage and ClearConversation calls, the messages of the      *)
(* context window hold the system prompt exactly once.                     *)
(***************************************************************************)
RECURSIVE countSystemPrompts(_)
countSystemPrompts(messages) ==
    IF messages = << >> THEN 0
    ELSE (IF Head(messages).Role = "system"
             /\ Head(messages).Content = SystemPrompt THEN 1 ELSE 0)
         + countSystemPrompts(Tail(messages))

C28_SystemPromptOnce ==
    nextID > 0 => countSystemPrompts(Msgs(cw)) = 1

\* a turn after a clear has trimmed the window, and the prompt is still there
C28_Witness ==
    /\ lastOp = "ProcessMessage"
    /\ clears > 0
    /\ Len(Msgs(entry)) > 0
    /\ entry.ConversationSummary = ""
    /\ cw.ConversationSummary # ""
    /\ countSystemPrompts(Msgs(cw)) = 1
    /\ Len(Msgs(cw)) > 1

(***************************************************************************)
(* C30.  In every interleaving of Start and Stop calls on one              *)
(* LoadingIndicator the stop channel is closed at most once, no call       *)
(* panics, and at most one animate goroutine runs at a time.               *)
(***************************************************************************)
C30_StopChannelClosedOnce ==
    /\ li.closes <= 1
    /\ ~li.panicked
    /\ li.animators <= 1

\* the parts of it, one by one
C30_NoPanic == ~li.panicked

C30_OneAnimator == li.animators <= 1

====
